---- MODULE Spec2Model ----
(***************************************************************************)
(* A model of the SpaceTravel software renderer: the depth-buffered        *)
(* Framebuffer (src/src/framebuffer.rs), the shader dispatch               *)
(* (src/src/shaders.rs) and the render pipeline and frame loop             *)
(* (src/src/main.rs).                                                      *)
(*                                                                         *)
(* Conventions.  usize/isize/u32 values are integers.  f32 depths are      *)
(* integers 1..MaxDepth plus the two special values INFINITY and NaN,      *)
(* compared by f32_gt/f32_lt, which follow IEEE-754 (every comparison      *)
(* with NaN is false).  A Vec of length n is a function on 0..n-1.         *)
(* A Framebuffer value is a record with the fields of the struct; every    *)
(* method is an operator from a Framebuffer to the Framebuffer it leaves.  *)
(***************************************************************************)
EXTENDS Integers, Sequences, FiniteSets, TLC

\* ------------------------------------------------------------------ bounds
Width == 2
Height == 2
MaxDepth == 3
MaxWrites == 3
MaxOps == 3
MaxSceneOps == 2
UsizeModulus == 65536

\* ------------------------------------------------------- program constants
INFINITY == 1000000000
NaN == -1000000000
BLACK == 0
WHITE == 16777215
GRAY == 11184810

Colors == {BLACK, GRAY, WHITE}
Depths == (1..MaxDepth) \cup {INFINITY, NaN}

\* a > b and a < b on f32
f32_gt(a, b) == a # NaN /\ b # NaN /\ a > b
f32_lt(a, b) == a # NaN /\ b # NaN /\ a < b
\* a != b on f32
f32_ne(a, b) == a = NaN \/ b = NaN \/ a # b

\* ------------------------------------------------------------ Framebuffer
new(width, height) ==
    [width |-> width,
     height |-> height,
     buffer |-> [i \in 0..(width * height - 1) |-> BLACK],
     zbuffer |-> [i \in 0..(width * height - 1) |-> INFINITY],
     background_color |-> BLACK,
     current_color |-> WHITE]

\* a plausible slip: the colors are reset and the depths are left behind
clear_colors_only(fb) ==
    [fb EXCEPT !.buffer = [i \in DOMAIN fb.buffer |-> fb.background_color]]

clear(fb) ==
    [fb EXCEPT !.buffer = [i \in DOMAIN fb.buffer |-> fb.background_color],
               !.zbuffer = [i \in DOMAIN fb.zbuffer |-> INFINITY]]

\* a plausible slip: the depth test passes on a tie as well
point_le(fb, x, y, depth) ==
    IF x < fb.width /\ y < fb.height
    THEN LET index == y * fb.width + x
         IN  IF ~ f32_lt(fb.zbuffer[index], depth) /\ depth # NaN
             THEN [fb EXCEPT !.buffer[index] = fb.current_color,
                             !.zbuffer[index] = depth]
             ELSE fb
    ELSE fb

\* a plausible slip: the color is written but the depth is not recorded
point_keeps_depth(fb, x, y, depth) ==
    IF x < fb.width /\ y < fb.height
    THEN LET index == y * fb.width + x
         IN  IF f32_gt(fb.zbuffer[index], depth)
             THEN [fb EXCEPT !.buffer[index] = fb.current_color]
             ELSE fb
    ELSE fb

\* a plausible slip: only the row is checked, so x >= width lands in the
\* next row (or past the end of the Vec, which the slip then skips)
point_no_x_check(fb, x, y, depth) ==
    IF y < fb.height
    THEN LET index == y * fb.width + x
         IN  IF index \in DOMAIN fb.zbuffer /\ f32_gt(fb.zbuffer[index], depth)
             THEN [fb EXCEPT !.buffer[index] = fb.current_color,
                             !.zbuffer[index] = depth]
             ELSE fb
    ELSE fb

\* a plausible slip: no depth test at all, the last write wins
point_no_test(fb, x, y, depth) ==
    IF x < fb.width /\ y < fb.height
    THEN LET index == y * fb.width + x
         IN  [fb EXCEPT !.buffer[index] = fb.current_color,
                        !.zbuffer[index] = depth]
    ELSE fb

point(fb, x, y, depth) ==
    IF x < fb.width /\ y < fb.height
    THEN LET index == y * fb.width + x
         IN  IF f32_gt(fb.zbuffer[index], depth)
             THEN [fb EXCEPT !.buffer[index] = fb.current_color,
                             !.zbuffer[index] = depth]
             ELSE fb
    ELSE fb

set_background_color(fb, color) == [fb EXCEPT !.background_color = color]

set_current_color(fb, color) == [fb EXCEPT !.current_color = color]

\* ------------------------------------------------- usize arithmetic
\* usize subtraction: a build with overflow checks panics when a < b, a
\* build without them wraps modulo the word size.  The word is modelled
\* with UsizeModulus values (TLC's integers are narrower than 2^64).
usize_sub_overflows(a, b) == a < b
usize_wrapping_sub(a, b) == (a - b) % UsizeModulus

\* ------------------------------------------------- font8x8::BASIC_FONTS
\* BASIC_FONTS.get(c): the 8 row bytes of a glyph of the basic block, or
\* None (the empty sequence here) for a character outside it.
BASIC_FONTS_get(c) ==
    CASE c = "N" -> <<99, 103, 111, 123, 115, 99, 99, 0>>
      [] c = "A" -> <<12, 30, 51, 51, 63, 51, 51, 0>>
      [] OTHER -> <<>>

Chars == {"N", "A", "u_acute"}

\* (byte >> col) & 1 == 1
bit_set(byte, col) == (byte \div (2 ^ col)) % 2 = 1

\* the <<row, col>> of the set bits of each glyph: the iterations of the
\* row and col loops that reach the sx and sy loops
glyph_bits ==
    [c \in Chars |->
        LET font == BASIC_FONTS_get(c)
        IN  {rc \in (0..7) \X (0..7) :
                font # <<>> /\ bit_set(font[rc[1] + 1], rc[2])}]

\* the (row, col, sx, sy) iterations of draw_char that reach the pixel write
draw_char_iterations(c, scale) ==
    glyph_bits[c] \X (0..(scale - 1)) \X (0..(scale - 1))

\* some iteration computes x + col * scale - sx below zero
draw_char_underflows(x, c, scale) ==
    \E it \in draw_char_iterations(c, scale) :
        usize_sub_overflows(x + it[1][2] * scale, it[2])

\* the pixels draw_char writes (every write stores the same color, so the
\* order of the four loops does not show in the result)
draw_char_pixels(fb, x, y, c, scale) ==
    {p \in {<<usize_wrapping_sub(x + it[1][2] * scale, it[2]),
              y + it[1][1] * scale + it[3]>> :
                it \in draw_char_iterations(c, scale)} :
        p[1] < fb.width /\ p[2] < fb.height}

\* buffer[py * width + px] = color for each <<px, py>> of pixels, all of
\* them inside the framebuffer
paint(fb, pixels, color) ==
    [fb EXCEPT !.buffer = [i \in DOMAIN fb.buffer |->
        IF <<i % fb.width, i \div fb.width>> \in pixels
        THEN color ELSE fb.buffer[i]]]

draw_char(fb, x, y, c, color, scale) ==
    paint(fb, draw_char_pixels(fb, x, y, c, scale), color)

RECURSIVE draw_text_from(_, _, _, _, _, _, _)
draw_text_from(fb, i, x, y, text, color, scale) ==
    IF i >= Len(text) THEN fb
    ELSE draw_text_from(
             draw_char(fb, x + i * 8 * scale, y, text[i + 1], color, scale),
             i + 1, x, y, text, color, scale)

draw_text(fb, x, y, text, color, scale) ==
    draw_text_from(fb, 0, x, y, text, color, scale)

draw_text_underflows(x, text, scale) ==
    \E i \in 0..(Len(text) - 1) :
        draw_char_underflows(x + i * 8 * scale, text[i + 1], scale)

\* ------------------------------------------------------------ draw_circle
plot_circle_points(fb, cx, cy, x, y, color) ==
    LET points == {<<cx + x, cy + y>>, <<cx - x, cy + y>>,
                   <<cx + x, cy - y>>, <<cx - x, cy - y>>,
                   <<cx + y, cy + x>>, <<cx - y, cy + x>>,
                   <<cx + y, cy - x>>, <<cx - y, cy - x>>}
    IN  paint(fb, {p \in points : /\ p[1] >= 0 /\ p[1] < fb.width
                                  /\ p[2] >= 0 /\ p[2] < fb.height}, color)

RECURSIVE draw_circle_loop(_, _, _, _, _, _, _)
draw_circle_loop(fb, cx, cy, x, y, err, color) ==
    IF ~ (x >= y) THEN fb
    ELSE LET fb1 == plot_circle_points(fb, cx, cy, x, y, color)
             y1 == y + 1
             err1 == err + 1 + 2 * y1
             dec == 2 * (err1 - x) + 1 > 0
             x2 == IF dec THEN x - 1 ELSE x
             err2 == IF dec THEN err1 + 1 - 2 * x2 ELSE err1
         IN  draw_circle_loop(fb1, cx, cy, x2, y1, err2, color)

draw_circle(fb, cx, cy, radius, color) ==
    draw_circle_loop(fb, cx, cy, radius, 0, 0, color)

\* -------------------------------------------------------------- draw_line
abs(v) == IF v < 0 THEN -v ELSE v

RECURSIVE draw_line_loop(_, _, _, _, _, _, _, _, _, _, _)
draw_line_loop(fb, x0, y0, x1, y1, dx, dy, sx, sy, err, color) ==
    IF ~ (x0 # x1 \/ y0 # y1) THEN fb
    ELSE LET fb1 == IF x0 >= 0 /\ x0 < fb.width /\ y0 >= 0 /\ y0 < fb.height
                    THEN paint(fb, {<<x0, y0>>}, color)
                    ELSE fb
             e2 == 2 * err
             stepx == e2 >= dy
             err1 == IF stepx THEN err + dy ELSE err
             x0n == IF stepx THEN x0 + sx ELSE x0
             stepy == e2 <= dx
             err2 == IF stepy THEN err1 + dx ELSE err1
             y0n == IF stepy THEN y0 + sy ELSE y0
         IN  IF stepx /\ x0 = x1 THEN fb1
             ELSE IF stepy /\ y0 = y1 THEN fb1
             ELSE draw_line_loop(fb1, x0n, y0n, x1, y1, dx, dy, sx, sy,
                                 err2, color)

draw_line(fb, x0, y0, x1, y1, color) ==
    LET dx == abs(x1 - x0)
        dy == - abs(y1 - y0)
        sx == IF x0 < x1 THEN 1 ELSE -1
        sy == IF y0 < y1 THEN 1 ELSE -1
    IN  draw_line_loop(fb, x0, y0, x1, y1, dx, dy, sx, sy, dx + dy, color)

\* ---------------------------------------------------------- draw_triangle
\* to_screen of a vertex whose coordinates are given in halves
\* (v = <<2 * v.x, 2 * v.y>>); `as usize` saturates a negative value to 0.
to_screen(fb, v) ==
    LET tx == (v[1] + 2) * fb.width
        ty == (2 - v[2]) * fb.height
    IN  <<IF tx < 0 THEN 0 ELSE tx \div 4, IF ty < 0 THEN 0 ELSE ty \div 4>>

draw_triangle(fb, v0, v1, v2) ==
    LET screen_v0 == to_screen(fb, v0)
        screen_v1 == to_screen(fb, v1)
        screen_v2 == to_screen(fb, v2)
        l1 == draw_line(fb, screen_v0[1], screen_v0[2],
                        screen_v1[1], screen_v1[2], fb.current_color)
        l2 == draw_line(l1, screen_v1[1], screen_v1[2],
                        screen_v2[1], screen_v2[2], fb.current_color)
    IN  draw_line(l2, screen_v2[1], screen_v2[2],
                  screen_v0[1], screen_v0[2], fb.current_color)

\* ---------------------------------------------------------- render_skybox
\* A texture: its dimensions and its pixels as <<r, g, b>>.
tex_black == [width |-> 1, height |-> 1,
              pixels |-> [p \in {<<0, 0>>} |-> <<0, 0, 0>>]]
tex_stars == [width |-> 2, height |-> 2,
              pixels |-> [p \in (0..1) \X (0..1) |->
                  IF p[1] = p[2] THEN <<255, 255, 255>> ELSE <<0, 0, 32>>]]
Textures == {tex_black, tex_stars}

\* (x as f32 / (n - 1) as f32 * (tn - 1) as f32) as u32, in exact
\* arithmetic; 0/0 is NaN, which `as u32` turns into 0.
tex_coord(x, n, tn) == IF n = 1 THEN 0 ELSE (x * (tn - 1)) \div (n - 1)

skybox_color(fb, texture, i) ==
    LET x == i % fb.width
        y == i \div fb.width
        pixel == texture.pixels[<<tex_coord(x, fb.width, texture.width),
                                  tex_coord(y, fb.height, texture.height)>>]
    IN  pixel[1] * 65536 + pixel[2] * 256 + pixel[3]

\* a plausible slip: the skybox is stored at the nearest depth instead of
\* the farthest
render_skybox_in_front(fb, texture) ==
    [fb EXCEPT !.buffer = [i \in DOMAIN fb.buffer |->
                              skybox_color(fb, texture, i)],
               !.zbuffer = [i \in DOMAIN fb.zbuffer |-> 0]]

render_skybox(fb, texture) ==
    [fb EXCEPT !.buffer = [i \in DOMAIN fb.buffer |->
                              skybox_color(fb, texture, i)],
               !.zbuffer = [i \in DOMAIN fb.zbuffer |-> INFINITY]]

\* -------------------------------------------------- f32 in shading code
\* The f32 values of the transform and shading code are kept in fixed
\* point: the integer n stands for n / Scale.  NaN stands for itself.
Scale == 100

\* the literal units.hundredths
dec(units, hundredths) == units * Scale + (hundredths * Scale) \div 100

fmul(a, b) == (a * b) \div Scale
fdiv(a, b) == (a * Scale) \div b

\* f32::max and f32::min return the other operand when one is NaN
f32_max(a, b) == IF a = NaN THEN b ELSE IF b = NaN THEN a
                 ELSE IF a > b THEN a ELSE b
f32_min(a, b) == IF a = NaN THEN b ELSE IF b = NaN THEN a
                 ELSE IF a < b THEN a ELSE b
f32_clamp(v, lo, hi) == IF v = NaN THEN NaN
                        ELSE IF v < lo THEN lo ELSE IF v > hi THEN hi ELSE v
f32_abs(v) == IF v = NaN THEN NaN ELSE abs(v)

RECURSIVE sqrt_between(_, _, _)
sqrt_between(n, lo, hi) ==
    IF lo >= hi THEN lo
    ELSE LET mid == (lo + hi + 1) \div 2
         IN  IF mid * mid <= n
             THEN sqrt_between(n, mid, hi)
             ELSE sqrt_between(n, lo, mid - 1)

\* the largest r with r * r <= n (46340 is the largest root of an i32)
isqrt(n) == sqrt_between(n, 0, IF n > 46340 THEN 46340 ELSE n)

\* ------------------------------------------------ nalgebra_glm vectors
\* Vec3 is <<x, y, z>>, Vec2 <<x, y>>, Vec4 <<x, y, z, w>>
vec3_sub(a, b) == <<a[1] - b[1], a[2] - b[2], a[3] - b[3]>>
vec3_add(a, b) == <<a[1] + b[1], a[2] + b[2], a[3] + b[3]>>
vec3_scale(a, s) == <<fmul(a[1], s), fmul(a[2], s), fmul(a[3], s)>>
magnitude(v) == isqrt(v[1] * v[1] + v[2] * v[2] + v[3] * v[3])
magnitude2(v) == isqrt(v[1] * v[1] + v[2] * v[2])

\* the zero vector normalizes to NaN components (0.0 / 0.0)
normalize(v) ==
    LET m == magnitude(v)
    IN  IF m = 0 THEN <<NaN, NaN, NaN>>
        ELSE <<(v[1] * Scale) \div m, (v[2] * Scale) \div m,
               (v[3] * Scale) \div m>>

dot(a, b) ==
    IF \E i \in 1..3 : a[i] = NaN \/ b[i] = NaN THEN NaN
    ELSE (a[1] * b[1] + a[2] * b[2] + a[3] * b[3]) \div Scale

\* Mat4 is four rows of four entries, Mat3 three rows of three
identity4 == <<<<Scale, 0, 0, 0>>, <<0, Scale, 0, 0>>, <<0, 0, Scale, 0>>,
               <<0, 0, 0, Scale>>>>
identity3 == <<<<Scale, 0, 0>>, <<0, Scale, 0>>, <<0, 0, Scale>>>>

mat4_entry(a, b, i, j) ==
    (a[i][1] * b[1][j] + a[i][2] * b[2][j] + a[i][3] * b[3][j]
     + a[i][4] * b[4][j]) \div Scale

mat4_row(a, b, i) ==
    <<mat4_entry(a, b, i, 1), mat4_entry(a, b, i, 2),
      mat4_entry(a, b, i, 3), mat4_entry(a, b, i, 4)>>

mat4_mul(a, b) ==
    <<mat4_row(a, b, 1), mat4_row(a, b, 2), mat4_row(a, b, 3),
      mat4_row(a, b, 4)>>

row_dot4(r, v) ==
    (r[1] * v[1] + r[2] * v[2] + r[3] * v[3] + r[4] * v[4]) \div Scale

mat4_mul_vec4(m, v) ==
    <<row_dot4(m[1], v), row_dot4(m[2], v), row_dot4(m[3], v),
      row_dot4(m[4], v)>>

row_dot3(r, v) == (r[1] * v[1] + r[2] * v[2] + r[3] * v[3]) \div Scale

mat3_mul_vec3(m, v) ==
    <<row_dot3(m[1], v), row_dot3(m[2], v), row_dot3(m[3], v)>>

mat4_to_mat3(m) ==
    <<<<m[1][1], m[1][2], m[1][3]>>, <<m[2][1], m[2][2], m[2][3]>>,
      <<m[3][1], m[3][2], m[3][3]>>>>

transpose(m) ==
    <<<<m[1][1], m[2][1], m[3][1]>>, <<m[1][2], m[2][2], m[3][2]>>,
      <<m[1][3], m[2][3], m[3][3]>>>>

\* the cofactor of entry (i, j) of a Mat3, sign included
cofactor(m, i, j) ==
    LET i1 == (i % 3) + 1
        i2 == ((i + 1) % 3) + 1
        j1 == (j % 3) + 1
        j2 == ((j + 1) % 3) + 1
    IN  m[i1][j1] * m[i2][j2] - m[i1][j2] * m[i2][j1]

determinant(m) ==
    m[1][1] * cofactor(m, 1, 1) + m[1][2] * cofactor(m, 1, 2)
    + m[1][3] * cofactor(m, 1, 3)

inverse_entry(m, det, i, j) == (cofactor(m, j, i) * Scale * Scale) \div det

inverse_row(m, det, i) ==
    <<inverse_entry(m, det, i, 1), inverse_entry(m, det, i, 2),
      inverse_entry(m, det, i, 3)>>

\* try_inverse().unwrap_or(Mat3::identity())
try_inverse_or_identity(m) ==
    LET det == determinant(m)
    IN  IF det = 0 THEN identity3
        ELSE <<inverse_row(m, det, 1), inverse_row(m, det, 2),
               inverse_row(m, det, 3)>>

\* ---------------------------------------------------------------- Color
\* A color is its three channels, each in units of 1/255 of the channel
\* range.  Color math is done per channel without clamping; the packed
\* pixel of to_hex clamps each channel to 0..255.
Color_new(r, g, b) == [r |-> r, g |-> g, b |-> b]

from_float(r, g, b) ==
    Color_new((f32_clamp(r, 0, Scale) * 255) \div Scale,
              (f32_clamp(g, 0, Scale) * 255) \div Scale,
              (f32_clamp(b, 0, Scale) * 255) \div Scale)

from_hex(hex) ==
    Color_new((hex \div 65536) % 256, (hex \div 256) % 256, hex % 256)

clamp_channel(c) == IF c < 0 THEN 0 ELSE IF c > 255 THEN 255 ELSE c

to_hex(c) ==
    clamp_channel(c.r) * 65536 + clamp_channel(c.g) * 256
    + clamp_channel(c.b)

lerp(c, other, t) ==
    Color_new(c.r + fmul(other.r - c.r, t),
              c.g + fmul(other.g - c.g, t),
              c.b + fmul(other.b - c.b, t))

color_mul(c, s) == Color_new(fmul(c.r, s), fmul(c.g, s), fmul(c.b, s))
color_add(a, b) == Color_new(a.r + b.r, a.g + b.g, a.b + b.b)

\* ------------------------------------------------------- FastNoiseLite
\* The noise sampler of the uniforms: a deterministic field with values in
\* [-1, 1].  A sampler here is [offset, slope]: slope 0 gives a field of
\* one value, any other slope a field that varies with the coordinates.
noise_at(noise, s) ==
    ((noise.offset + Scale + noise.slope * s) % (2 * Scale + 1)) - Scale

get_noise_2d(noise, x, y) == noise_at(noise, x + 2 * y)
get_noise_3d(noise, x, y, z) == noise_at(noise, x + 2 * y + 3 * z)

\* ------------------------------------------------------------- shaders
sun_light == [position |-> <<0, 0, 0>>,
              color |-> Color_new(255, 255, 200),
              intensity |-> dec(3, 0)]

sun_shader == <<from_float(dec(1, 0), dec(0, 90), dec(0, 50)), 100>>

apply_lighting(base_color, fragment, light) ==
    LET light_direction ==
            normalize(vec3_sub(light.position, fragment.vertex_position))
        intensity == f32_max(dot(fragment.normal, light_direction), 0)
        distance ==
            magnitude(vec3_sub(light.position, fragment.vertex_position))
        attenuation ==
            fdiv(dec(1, 0),
                 dec(1, 0) + fmul(dec(0, 10), distance)
                 + fmul(fmul(dec(0, 1), distance), distance))
        light_effect ==
            color_mul(light.color,
                      fmul(fmul(intensity, light.intensity), attenuation))
    IN  lerp(base_color, light_effect, intensity)

\* a plausible slip: a band index past the last band is held at the last
\* band instead of wrapping around
ring_shader_last_band_held(fragment) ==
    LET distance_from_center ==
            magnitude2(<<fragment.vertex_position[1],
                         fragment.vertex_position[3]>>)
        num_bands == 4
        band_width == dec(1, 0) \div num_bands
        band_index == distance_from_center \div band_width
        band_colors == <<from_hex(11584734), from_hex(7372944),
                         from_hex(11119017), from_hex(16119260)>>
        color == band_colors[f32_min(abs(band_index), num_bands - 1) + 1]
        edge_distance ==
            fdiv(distance_from_center % band_width, band_width)
        smooth_edge == f32_clamp(dec(1, 0) - edge_distance, 0, dec(1, 0))
    IN  <<color_mul(color, smooth_edge), 0>>

ring_shader(fragment) ==
    LET distance_from_center ==
            magnitude2(<<fragment.vertex_position[1],
                         fragment.vertex_position[3]>>)
        num_bands == 4
        max_distance == dec(1, 0)
        band_width == max_distance \div num_bands
        band_index == distance_from_center \div band_width
        band_colors == <<from_hex(11584734), from_hex(7372944),
                         from_hex(11119017), from_hex(16119260)>>
        color == band_colors[((abs(band_index) % num_bands)
                              % Len(band_colors)) + 1]
        edge_distance ==
            fdiv(distance_from_center % band_width, band_width)
        smooth_edge == f32_clamp(dec(1, 0) - edge_distance, 0, dec(1, 0))
    IN  <<color_mul(color, smooth_edge), 0>>

earth_shader(fragment, uniforms) ==
    LET land_color == Color_new(34, 139, 34)
        ocean_color == Color_new(30, 144, 255)
        snow_color == Color_new(255, 250, 250)
        cloud_color == Color_new(255, 255, 255)
        p == fragment.vertex_position
        zoom == dec(15, 0)
        noise_value ==
            get_noise_3d(uniforms.noise, fmul(p[1], zoom), fmul(p[2], zoom),
                         fmul(p[3], zoom))
        base_color ==
            IF noise_value < - dec(0, 30)
            THEN lerp(ocean_color, Color_new(25, 105, 210),
                      fdiv(noise_value + dec(0, 30), dec(0, 30)))
            ELSE IF noise_value > dec(0, 70)
            THEN lerp(land_color, snow_color,
                      fdiv(noise_value - dec(0, 70), dec(0, 30)))
            ELSE lerp(ocean_color, land_color,
                      fdiv(noise_value + dec(0, 30), dec(1, 0)))
        cloud_zoom1 == dec(10, 0)
        displacement_x1 ==
            fmul(get_noise_2d(uniforms.noise, fmul(p[1], cloud_zoom1),
                              fmul(p[2], cloud_zoom1)), dec(0, 30))
        displacement_z1 ==
            fmul(get_noise_2d(uniforms.noise, fmul(p[3], cloud_zoom1),
                              fmul(p[2], cloud_zoom1)), dec(0, 30))
        cloud_noise_value1 ==
            get_noise_3d(uniforms.noise,
                         fmul(p[1], cloud_zoom1) + displacement_x1,
                         fmul(p[2], cloud_zoom1),
                         fmul(p[3], cloud_zoom1) + displacement_z1)
        cloud_opacity1 ==
            f32_max(f32_min(fmul(cloud_noise_value1, dec(0, 50))
                            + dec(0, 50), dec(1, 0)), 0)
        cloud_zoom2 == dec(8, 0)
        displacement_x2 ==
            fmul(get_noise_2d(uniforms.noise, fmul(p[1], cloud_zoom2),
                              fmul(p[2], cloud_zoom2)), dec(0, 40))
        displacement_z2 ==
            fmul(get_noise_2d(uniforms.noise, fmul(p[3], cloud_zoom2),
                              fmul(p[2], cloud_zoom2)), dec(0, 40))
        cloud_noise_value2 ==
            get_noise_3d(uniforms.noise,
                         fmul(p[1], cloud_zoom2) + displacement_x2,
                         fmul(p[2], cloud_zoom2),
                         fmul(p[3], cloud_zoom2) + displacement_z2)
        cloud_opacity2 ==
            f32_max(f32_min(fmul(cloud_noise_value2, dec(0, 50))
                            + dec(0, 50), dec(1, 0)), 0)
        combined_clouds ==
            color_add(color_mul(cloud_color, cloud_opacity1),
                      color_mul(cloud_color, cloud_opacity2))
    IN  lerp(base_color, combined_clouds, dec(0, 50))

\* the additive form shared by mars, jupiter, mercury and uranus:
\* base * ambient + base * diffuse
ambient_plus(base_color, ambient_intensity, lit_color) ==
    color_add(color_mul(base_color, ambient_intensity), lit_color)

diffuse_towards(fragment, light_pos) ==
    LET light_dir == normalize(vec3_sub(light_pos, fragment.vertex_position))
        normal == normalize(fragment.normal)
    IN  f32_max(dot(normal, light_dir), 0)

\* if lerp_factor < 0.5 { a.lerp(b, f * 2) } else { b.lerp(c, (f - 0.5) * 2) }
three_color_blend(a, b, c, lerp_factor) ==
    IF lerp_factor < dec(0, 50)
    THEN lerp(a, b, fmul(lerp_factor, dec(2, 0)))
    ELSE lerp(b, c, fmul(lerp_factor - dec(0, 50), dec(2, 0)))

mars_shader(fragment, uniforms) ==
    LET noise_value ==
            get_noise_2d(uniforms.noise, fragment.vertex_position[1],
                         fragment.vertex_position[2])
        dark_red == from_float(dec(0, 40), dec(0, 10), dec(0, 10))
        bright_orange == from_float(dec(0, 80), dec(0, 40), dec(0, 10))
        terracotta == from_float(dec(0, 60), dec(0, 30), dec(0, 10))
        lerp_factor == f32_clamp(noise_value, 0, dec(1, 0))
        base_color ==
            three_color_blend(dark_red, terracotta, bright_orange,
                              lerp_factor)
        light_pos == <<0, dec(8, 0), dec(9, 0)>>
        diffuse_intensity == diffuse_towards(fragment, light_pos)
        lit_color == color_mul(base_color, diffuse_intensity)
    IN  <<ambient_plus(base_color, dec(0, 15), lit_color), 0>>

jupiter_shader(fragment, uniforms) ==
    LET noise_value ==
            get_noise_2d(uniforms.noise, fragment.vertex_position[1],
                         fragment.vertex_position[2])
        pastel_pink == from_float(dec(1, 0), dec(0, 71), dec(0, 76))
        soft_lilac == from_float(dec(0, 87), dec(0, 63), dec(0, 87))
        white == from_float(dec(1, 0), dec(1, 0), dec(1, 0))
        lerp_factor == f32_clamp(noise_value, 0, dec(1, 0))
        base_color ==
            three_color_blend(pastel_pink, soft_lilac, white, lerp_factor)
        light_pos == <<- dec(10, 0), dec(8, 0), dec(9, 0)>>
        diffuse_intensity == diffuse_towards(fragment, light_pos)
        lit_color == color_mul(base_color, diffuse_intensity)
    IN  ambient_plus(base_color, dec(0, 15), lit_color)

saturn_shader(fragment, uniforms) ==
    LET warm_yellow == Color_new(255, 225, 180)
        soft_orange == Color_new(255, 200, 150)
        light_beige == Color_new(240, 230, 210)
        zoom == dec(10, 0)
        noise_value ==
            get_noise_2d(uniforms.noise,
                         fmul(fragment.vertex_position[1], zoom),
                         fmul(fragment.vertex_position[2], zoom))
        lerp_factor == f32_clamp(noise_value, 0, dec(1, 0))
        base_color ==
            three_color_blend(warm_yellow, soft_orange, light_beige,
                              lerp_factor)
        lit_color == base_color
    IN  ambient_plus(base_color, dec(0, 20), lit_color)

\* 1.0 / (1.0 + 0.1 * distance + 0.02 * distance * distance)
attenuation_from(fragment, sun_position) ==
    LET distance == magnitude(vec3_sub(sun_position,
                                       fragment.vertex_position))
    IN  fdiv(dec(1, 0),
             dec(1, 0) + fmul(dec(0, 10), distance)
             + fmul(fmul(dec(0, 2), distance), distance))

mercury_shader(fragment, uniforms) ==
    LET base_color == Color_new(169, 169, 169)
        crater_color == Color_new(105, 105, 105)
        highlight_color == Color_new(200, 200, 200)
        zoom == dec(20, 0)
        noise_value ==
            get_noise_2d(uniforms.noise,
                         fmul(fragment.vertex_position[1], zoom),
                         fmul(fragment.vertex_position[2], zoom))
        base_fragment_color ==
            IF noise_value < - dec(0, 20)
            THEN lerp(crater_color, base_color,
                      f32_clamp(noise_value + dec(0, 20), 0, dec(1, 0)))
            ELSE lerp(base_color, highlight_color,
                      f32_clamp(noise_value, 0, dec(1, 0)))
        sun_position == <<0, 0, 0>>
        diffuse_intensity == diffuse_towards(fragment, sun_position)
        attenuation == attenuation_from(fragment, sun_position)
        lit_color ==
            color_mul(color_mul(base_fragment_color, diffuse_intensity),
                      attenuation)
    IN  ambient_plus(base_fragment_color, dec(0, 15), lit_color)

venus_shader(fragment, uniforms) ==
    LET base_color == Color_new(218, 165, 32)
        cloud_color == Color_new(255, 228, 181)
        zoom == dec(8, 0)
        noise_value ==
            get_noise_2d(uniforms.noise,
                         fmul(fragment.vertex_position[1], zoom),
                         fmul(fragment.vertex_position[2], zoom))
    IN  lerp(base_color, cloud_color, f32_abs(noise_value))

uranus_shader(fragment, uniforms) ==
    LET light_blue == Color_new(173, 216, 230)
        cyan == Color_new(0, 255, 255)
        white == Color_new(240, 248, 255)
        zoom == dec(8, 0)
        noise_value ==
            get_noise_2d(uniforms.noise,
                         fmul(fragment.vertex_position[1], zoom)
                         + fmul(uniforms.time * Scale, dec(0, 10)),
                         fmul(fragment.vertex_position[2], zoom))
        lerp_factor == f32_clamp(noise_value, 0, dec(1, 0))
        base_color == three_color_blend(light_blue, cyan, white, lerp_factor)
        sun_position == <<- dec(20, 0), dec(8, 0), dec(9, 0)>>
        diffuse_intensity == diffuse_towards(fragment, sun_position)
        attenuation == attenuation_from(fragment, sun_position)
        lit_color ==
            color_mul(color_mul(base_color, diffuse_intensity), attenuation)
    IN  ambient_plus(base_color, dec(0, 20), lit_color)

\* the factors the material of `index` (1..7) passes to Color::lerp while
\* it builds its base color, each as the shader computes it from its noise
\* sample
blend_factors(index, fragment, uniforms) ==
    LET p == fragment.vertex_position
        sample_2d(zoom) ==
            get_noise_2d(uniforms.noise, fmul(p[1], zoom), fmul(p[2], zoom))
        \* lerp_factor = noise_value.clamp(0.0, 1.0), then one of
        \* lerp_factor * 2.0 and (lerp_factor - 0.5) * 2.0
        three_color(noise_value) ==
            IF f32_clamp(noise_value, 0, dec(1, 0)) < dec(0, 50)
            THEN {fmul(f32_clamp(noise_value, 0, dec(1, 0)), dec(2, 0))}
            ELSE {fmul(f32_clamp(noise_value, 0, dec(1, 0)) - dec(0, 50),
                       dec(2, 0))}
        mercury(noise_value) ==
            IF noise_value < - dec(0, 20)
            THEN {f32_clamp(noise_value + dec(0, 20), 0, dec(1, 0))}
            ELSE {f32_clamp(noise_value, 0, dec(1, 0))}
        \* the surface layer, and the fixed 0.5 of the cloud layer
        earth(noise_value) ==
            {IF noise_value < - dec(0, 30)
             THEN fdiv(noise_value + dec(0, 30), dec(0, 30))
             ELSE IF noise_value > dec(0, 70)
             THEN fdiv(noise_value - dec(0, 70), dec(0, 30))
             ELSE fdiv(noise_value + dec(0, 30), dec(1, 0)),
             dec(0, 50)}
    IN  CASE index = 1 -> mercury(sample_2d(dec(20, 0)))
          [] index = 2 -> {f32_abs(sample_2d(dec(8, 0)))}
          [] index = 3 ->
                earth(get_noise_3d(uniforms.noise, fmul(p[1], dec(15, 0)),
                                   fmul(p[2], dec(15, 0)),
                                   fmul(p[3], dec(15, 0))))
          [] index = 4 -> three_color(get_noise_2d(uniforms.noise, p[1],
                                                   p[2]))
          [] index = 5 -> three_color(get_noise_2d(uniforms.noise, p[1],
                                                   p[2]))
          [] index = 6 -> three_color(sample_2d(dec(10, 0)))
          [] index = 7 ->
                three_color(
                    get_noise_2d(uniforms.noise,
                                 fmul(p[1], dec(8, 0))
                                 + fmul(uniforms.time * Scale, dec(0, 10)),
                                 fmul(p[2], dec(8, 0))))

\* the color the material function of `index` (1..7) returns: the first
\* argument of apply_lighting in select_shader's arm for that index
material_color(index, fragment, uniforms) ==
    CASE index = 1 -> mercury_shader(fragment, uniforms)
      [] index = 2 -> venus_shader(fragment, uniforms)
      [] index = 3 -> earth_shader(fragment, uniforms)
      [] index = 4 -> mars_shader(fragment, uniforms)[1]
      [] index = 5 -> jupiter_shader(fragment, uniforms)
      [] index = 6 -> saturn_shader(fragment, uniforms)
      [] index = 7 -> uranus_shader(fragment, uniforms)

\* a plausible slip: an index with no arm of its own is drawn black
select_shader_default_black(index, fragment, uniforms) ==
    CASE index = 0 -> sun_shader[1]
      [] index = 1 -> apply_lighting(mercury_shader(fragment, uniforms),
                                     fragment, sun_light)
      [] index = 2 -> apply_lighting(venus_shader(fragment, uniforms),
                                     fragment, sun_light)
      [] index = 3 -> apply_lighting(earth_shader(fragment, uniforms),
                                     fragment, sun_light)
      [] index = 4 -> apply_lighting(mars_shader(fragment, uniforms)[1],
                                     fragment, sun_light)
      [] index = 5 -> apply_lighting(jupiter_shader(fragment, uniforms),
                                     fragment, sun_light)
      [] index = 6 -> apply_lighting(saturn_shader(fragment, uniforms),
                                     fragment, sun_light)
      [] index = 7 -> apply_lighting(uranus_shader(fragment, uniforms),
                                     fragment, sun_light)
      [] index = 8 -> ring_shader(fragment)[1]
      [] OTHER -> Color_new(0, 0, 0)

\* a plausible slip: the sun goes through the lighting helper like the
\* planets do
select_shader_sun_lit(index, fragment, uniforms) ==
    CASE index = 1 -> apply_lighting(mercury_shader(fragment, uniforms),
                                     fragment, sun_light)
      [] index = 2 -> apply_lighting(venus_shader(fragment, uniforms),
                                     fragment, sun_light)
      [] index = 3 -> apply_lighting(earth_shader(fragment, uniforms),
                                     fragment, sun_light)
      [] index = 4 -> apply_lighting(mars_shader(fragment, uniforms)[1],
                                     fragment, sun_light)
      [] index = 5 -> apply_lighting(jupiter_shader(fragment, uniforms),
                                     fragment, sun_light)
      [] index = 6 -> apply_lighting(saturn_shader(fragment, uniforms),
                                     fragment, sun_light)
      [] index = 7 -> apply_lighting(uranus_shader(fragment, uniforms),
                                     fragment, sun_light)
      [] index = 8 -> ring_shader(fragment)[1]
      [] OTHER -> apply_lighting(sun_shader[1], fragment, sun_light)

select_shader(index, fragment, uniforms) ==
    CASE index = 0 -> sun_shader[1]
      [] index = 1 -> apply_lighting(mercury_shader(fragment, uniforms),
                                     fragment, sun_light)
      [] index = 2 -> apply_lighting(venus_shader(fragment, uniforms),
                                     fragment, sun_light)
      [] index = 3 -> apply_lighting(earth_shader(fragment, uniforms),
                                     fragment, sun_light)
      [] index = 4 -> apply_lighting(mars_shader(fragment, uniforms)[1],
                                     fragment, sun_light)
      [] index = 5 -> apply_lighting(jupiter_shader(fragment, uniforms),
                                     fragment, sun_light)
      [] index = 6 -> apply_lighting(saturn_shader(fragment, uniforms),
                                     fragment, sun_light)
      [] index = 7 -> apply_lighting(uranus_shader(fragment, uniforms),
                                     fragment, sun_light)
      [] index = 8 -> ring_shader(fragment)[1]
      [] OTHER -> sun_shader[1]

\* ------------------------------------------------------- vertex_shader
\* A Vertex is [position, normal, tex_coords, color, transformed_position,
\* transformed_normal]
Vertex_new(position, normal, color) ==
    [position |-> position, normal |-> normal, tex_coords |-> <<0, 0>>,
     color |-> color, transformed_position |-> <<0, 0, 0>>,
     transformed_normal |-> <<0, 0, 0>>]

vertex_shader(vertex, uniforms) ==
    LET zoom == dec(5, 0)
        displacement_amount ==
            get_noise_3d(uniforms.noise, fmul(vertex.position[1], zoom),
                         fmul(vertex.position[2], zoom),
                         fmul(vertex.position[3], zoom))
        displaced_position ==
            vec3_add(vertex.position,
                     vec3_scale(vec3_scale(vertex.normal,
                                           displacement_amount),
                                dec(0, 50)))
        model_mat3 == mat4_to_mat3(uniforms.model_matrix)
        normal_matrix == try_inverse_or_identity(transpose(model_mat3))
        \* the perspective division and the viewport matrix
        screen_position(transformed) ==
            mat4_mul_vec4(uniforms.viewport_matrix,
                          <<fdiv(transformed[1], transformed[4]),
                            fdiv(transformed[2], transformed[4]),
                            fdiv(transformed[3], transformed[4]),
                            dec(1, 0)>>)
        transformed_vertex(screen, transformed_normal) ==
            [position |-> vertex.position,
             normal |-> vertex.normal,
             tex_coords |-> vertex.tex_coords,
             color |-> vertex.color,
             transformed_position |-> <<screen[1], screen[2], screen[3]>>,
             transformed_normal |-> transformed_normal]
    IN  transformed_vertex(
            screen_position(
                mat4_mul_vec4(
                    mat4_mul(mat4_mul(uniforms.projection_matrix,
                                      uniforms.view_matrix),
                             uniforms.model_matrix),
                    <<displaced_position[1], displaced_position[2],
                      displaced_position[3], dec(1, 0)>>)),
            mat3_mul_vec3(normal_matrix, vertex.normal))

\* ---------------------------------------------------- triangle::triangle
\* The rasterizer: the bounding box of the three screen positions clamped
\* to the framebuffer, one candidate per integer pixel center, covered when
\* the three barycentric weights are >= 0, no fragment for a triangle of
\* zero signed area, attributes blended by the weights.
Fragment_new(position, color, depth, normal, intensity, vertex_position) ==
    [position |-> position, color |-> color, depth |-> depth,
     normal |-> normal, intensity |-> intensity,
     vertex_position |-> vertex_position]

\* twice the signed area of the triangle a, b, p
edge(a, b, p) ==
    (p[1] - a[1]) * (b[2] - a[2]) - (p[2] - a[2]) * (b[1] - a[1])

min3(a, b, c) == IF a <= b /\ a <= c THEN a ELSE IF b <= c THEN b ELSE c
max3(a, b, c) == IF a >= b /\ a >= c THEN a ELSE IF b >= c THEN b ELSE c
f32_floor(v) == v \div Scale
f32_ceil(v) == - ((- v) \div Scale)

\* the pixels of the clamped bounding box, row by row
bounding_box(a, b, c, width, height) ==
    LET min_x == max3(0, 0, f32_floor(min3(a[1], b[1], c[1])))
        max_x == min3(width - 1, width - 1,
                      f32_ceil(max3(a[1], b[1], c[1])))
        min_y == max3(0, 0, f32_floor(min3(a[2], b[2], c[2])))
        max_y == min3(height - 1, height - 1,
                      f32_ceil(max3(a[2], b[2], c[2])))
        all == [k \in 1..(width * height) |->
                   <<(k - 1) % width, (k - 1) \div width>>]
        inside(p) == /\ min_x <= p[1] /\ p[1] <= max_x
                     /\ min_y <= p[2] /\ p[2] <= max_y
    IN  SelectSeq(all, inside)

\* the three weights of pixel p, each times the signed area
barycentric(a, b, c, p) ==
    LET center == <<p[1] * Scale, p[2] * Scale>>
    IN  <<edge(b, c, center), edge(c, a, center), edge(a, b, center)>>

\* the weighted blend of one attribute: (w0 x0 + w1 x1 + w2 x2)
blend(e, area, x0, x1, x2) ==
    IF area > 0
    THEN (e[1] * x0 + e[2] * x1 + e[3] * x2) \div area
    ELSE (- (e[1] * x0 + e[2] * x1 + e[3] * x2)) \div (- area)

blend3(e, area, x0, x1, x2) ==
    <<blend(e, area, x0[1], x1[1], x2[1]),
      blend(e, area, x0[2], x1[2], x2[2]),
      blend(e, area, x0[3], x1[3], x2[3])>>

fragment_at(v0, v1, v2, e, area, p) ==
    Fragment_new(
        <<p[1] * Scale, p[2] * Scale>>,
        Color_new(blend(e, area, v0.color.r, v1.color.r, v2.color.r),
                  blend(e, area, v0.color.g, v1.color.g, v2.color.g),
                  blend(e, area, v0.color.b, v1.color.b, v2.color.b)),
        blend(e, area, v0.transformed_position[3],
              v1.transformed_position[3], v2.transformed_position[3]),
        blend3(e, area, v0.transformed_normal, v1.transformed_normal,
               v2.transformed_normal),
        0,
        blend3(e, area, v0.position, v1.position, v2.position))

\* a plausible slip: coverage is decided on the signs of the edge functions
\* and a triangle of zero area is not rejected; its fragments take the
\* attributes of the first vertex
triangle_no_area_check(v0, v1, v2, width, height) ==
    LET a == v0.transformed_position
        b == v1.transformed_position
        c == v2.transformed_position
        area == edge(a, b, c)
        covered(p) ==
            \/ \A i \in 1..3 : barycentric(a, b, c, p)[i] >= 0
            \/ \A i \in 1..3 : barycentric(a, b, c, p)[i] <= 0
        fragments(pixels) ==
            [k \in 1..Len(pixels) |->
                IF area = 0
                THEN fragment_at(v0, v1, v2, <<1, 0, 0>>, 1, pixels[k])
                ELSE fragment_at(v0, v1, v2,
                                 barycentric(a, b, c, pixels[k]), area,
                                 pixels[k])]
    IN  fragments(SelectSeq(bounding_box(a, b, c, width, height), covered))

\* a plausible slip: a pixel is covered only when the three weights are
\* strictly positive, so the edges and the corners are left out
triangle_strict_edges(v0, v1, v2, width, height) ==
    LET a == v0.transformed_position
        b == v1.transformed_position
        c == v2.transformed_position
        area == edge(a, b, c)
        covered(p) ==
            \A i \in 1..3 :
               IF area > 0 THEN barycentric(a, b, c, p)[i] > 0
               ELSE barycentric(a, b, c, p)[i] < 0
        fragments(pixels) ==
            [k \in 1..Len(pixels) |->
                fragment_at(v0, v1, v2, barycentric(a, b, c, pixels[k]),
                            area, pixels[k])]
    IN  IF area = 0 THEN <<>>
        ELSE fragments(SelectSeq(bounding_box(a, b, c, width, height),
                                 covered))

triangle(v0, v1, v2, width, height) ==
    LET a == v0.transformed_position
        b == v1.transformed_position
        c == v2.transformed_position
        area == edge(a, b, c)
        \* weight i is barycentric(..)[i] / area
        covered(p) ==
            \A i \in 1..3 :
               IF area > 0 THEN barycentric(a, b, c, p)[i] >= 0
               ELSE barycentric(a, b, c, p)[i] <= 0
        fragments(pixels) ==
            [k \in 1..Len(pixels) |->
                fragment_at(v0, v1, v2, barycentric(a, b, c, pixels[k]),
                            area, pixels[k])]
    IN  IF area = 0 THEN <<>>
        ELSE fragments(SelectSeq(bounding_box(a, b, c, width, height),
                                 covered))

\* ----------------------------------------------------------------- render
\* `as usize` of an f32: NaN and negatives give 0, the fraction is dropped
f32_as_usize(v) ==
    IF v = NaN \/ v < 0 THEN 0
    ELSE IF v \div Scale >= UsizeModulus THEN UsizeModulus - 1
    ELSE v \div Scale

\* the triangle assembly loop: `triangles` holds each triangle as the three
\* indices it was read from, `reads` every index of transformed_vertices
\* that was read, `panicked` whether a read was past the end
RECURSIVE triangles_loop_short_guard(_, _, _)
\* a plausible slip: the guard looks one vertex ahead instead of two
triangles_loop_short_guard(len, i, acc) ==
    IF i >= len \/ acc.panicked THEN acc
    ELSE IF i + 1 < len
         THEN triangles_loop_short_guard(len, i + 3,
                  [triangles |-> Append(acc.triangles, <<i, i + 1, i + 2>>),
                   reads |-> acc.reads \cup {i, i + 1, i + 2},
                   panicked |-> i + 2 >= len])
         ELSE triangles_loop_short_guard(len, i + 3, acc)

RECURSIVE triangles_loop(_, _, _)
triangles_loop(len, i, acc) ==
    IF i >= len \/ acc.panicked THEN acc
    ELSE IF i + 2 < len
         THEN triangles_loop(len, i + 3,
                  [triangles |-> Append(acc.triangles, <<i, i + 1, i + 2>>),
                   reads |-> acc.reads \cup {i, i + 1, i + 2},
                   panicked |-> i + 2 >= len])
         ELSE triangles_loop(len, i + 3, acc)

RECURSIVE rasterize_all(_, _, _, _, _)
rasterize_all(transformed_vertices, triangles, k, width, height) ==
    IF k > Len(triangles) THEN <<>>
    ELSE triangle(transformed_vertices[triangles[k][1] + 1],
                  transformed_vertices[triangles[k][2] + 1],
                  transformed_vertices[triangles[k][3] + 1],
                  width, height)
         \o rasterize_all(transformed_vertices, triangles, k + 1,
                          width, height)

\* render, one fragment: inside the framebuffer it is written with its
\* shaded color (set_current_color, then point); outside it is skipped
\* a plausible slip: the current color is not set, so the write takes the
\* color the framebuffer was left with
render_fragment_stale_color(fb, x, y, depth, color) ==
    IF x < fb.width /\ y < fb.height
    THEN point(fb, x, y, depth)
    ELSE fb

render_fragment(fb, x, y, depth, color) ==
    IF x < fb.width /\ y < fb.height
    THEN point(set_current_color(fb, color), x, y, depth)
    ELSE fb

\* the fragment loop of render with the shaded color of the fragments
\* given: every fragment is drawn in `color`
RECURSIVE write_fragments(_, _, _, _)
write_fragments(fb, fragments, k, color) ==
    IF k > Len(fragments) THEN fb
    ELSE write_fragments(
             render_fragment(fb,
                             f32_as_usize(fragments[k].position[1]),
                             f32_as_usize(fragments[k].position[2]),
                             fragments[k].depth, color),
             fragments, k + 1, color)

\* for fragment in fragments { .. }: the framebuffer it leaves, and in
\* `shaded` the fragments (by their place in the vector) that select_shader
\* was called for
RECURSIVE render_fragments(_, _, _, _, _, _)
render_fragments(fb, fragments, k, index, uniforms, shaded) ==
    IF k > Len(fragments) THEN [framebuffer |-> fb, shaded |-> shaded]
    ELSE IF /\ f32_as_usize(fragments[k].position[1]) < fb.width
            /\ f32_as_usize(fragments[k].position[2]) < fb.height
         THEN render_fragments(
                  render_fragment(fb,
                                  f32_as_usize(fragments[k].position[1]),
                                  f32_as_usize(fragments[k].position[2]),
                                  fragments[k].depth,
                                  to_hex(select_shader(index, fragments[k],
                                                       uniforms))),
                  fragments, k + 1, index, uniforms, shaded \cup {k})
         ELSE render_fragments(fb, fragments, k + 1, index, uniforms,
                               shaded)

\* for vertex in vertex_array { transformed_vertices.push(..) }
RECURSIVE transform_all(_, _, _)
transform_all(vertex_array, uniforms, k) ==
    IF k > Len(vertex_array) THEN <<>>
    ELSE <<vertex_shader(vertex_array[k], uniforms)>>
         \o transform_all(vertex_array, uniforms, k + 1)

\* render with a rasterizer that visits the pixels of [0, width) x
\* [0, height): the framebuffer it leaves, with what the call did on the
\* way
render_clamped_to(fb, uniforms, vertex_array, index, width, height) ==
    LET written(transformed_vertices, assembled, fragments, drawn) ==
            [framebuffer |-> drawn.framebuffer,
             shaded |-> drawn.shaded,
             drawn |-> fragments,
             uniforms |-> uniforms,
             len |-> Len(vertex_array),
             screen |-> [k \in 1..Len(vertex_array) |->
                            transformed_vertices[k].transformed_position],
             triangles |-> assembled.triangles,
             reads |-> assembled.reads,
             fragments |-> Len(fragments),
             panicked |-> assembled.panicked]
        shade(transformed_vertices, assembled, fragments) ==
            written(transformed_vertices, assembled, fragments,
                    IF assembled.panicked
                    THEN [framebuffer |-> fb, shaded |-> {}]
                    ELSE render_fragments(fb, fragments, 1, index, uniforms,
                                          {}))
        rasterize(transformed_vertices, assembled) ==
            shade(transformed_vertices, assembled,
                  IF assembled.panicked THEN <<>>
                  ELSE rasterize_all(transformed_vertices,
                                     assembled.triangles, 1,
                                     width, height))
        assemble(transformed_vertices) ==
            rasterize(transformed_vertices,
                      triangles_loop(Len(transformed_vertices), 0,
                                     [triangles |-> <<>>, reads |-> {},
                                      panicked |-> FALSE]))
    IN  assemble(transform_all(vertex_array, uniforms, 1))

\* render: the rasterizer is clamped to the framebuffer's extent
render(fb, uniforms, vertex_array, index) ==
    render_clamped_to(fb, uniforms, vertex_array, index, fb.width, fb.height)

\* ================================================================= state
VARIABLES
    framebuffer,  \* main's Framebuffer
    panicked,     \* the process has panicked (it runs no further)
    lastOp,       \* history: the last operation, [op, args]
    nops,         \* history: operations applied so far (Spec)
    writes,       \* history: the in-bounds point calls since the last clear,
                  \*          each with the draw color it was issued under
    clearColor,   \* history: the background color the last clear stored
    requestedBackground, \* history: the argument of the latest
                         \*          set_background_color call
    skybox_texture,      \* main's skybox_texture, loaded before the loop
    pc,                  \* main: the statement of the frame loop to run
    sceneOps,            \* main: framebuffer calls made by the scene part
                         \*       of the current frame
    shaded,              \* the Color the last select_shader call returned
    renderTrace,         \* history: what the last render call did
    rasterTrace,         \* history: the pixels each triangle of the last
                         \*          rasterization covered
    main_time,           \* main: the local `time`, counted in frames
    uniforms_time,       \* main: uniforms.time
    frameLog,            \* history: the steps of the current iteration of
                         \*          the frame loop, in order
    timesPassed,         \* history: per iteration, the values of
                         \*          uniforms.time that render was given
    loop,                \* the loop that is running and its local variables
    tick,                \* history: parity of the number of steps main has
                         \*          made inside frames (SpecLoops)
    bird_eye_view,            \* main: bird_eye_view
    focused_planet,           \* main: focused_planet, an Option: <<>> is
                              \*       None, <<planet>> is Some(planet)
    transitioning,            \* main: transitioning
    transition_target_eye,    \* main: transition_target_eye
    transition_target_center  \* main: transition_target_center

vars == <<framebuffer, panicked, lastOp, nops, writes, clearColor,
          requestedBackground, skybox_texture, pc, sceneOps, shaded,
          renderTrace, rasterTrace, main_time, uniforms_time, frameLog,
          timesPassed, loop, tick, bird_eye_view, focused_planet,
          transitioning, transition_target_eye, transition_target_center>>

mainVars == <<skybox_texture, pc, sceneOps>>
pipelineVars == <<shaded, renderTrace>>
rasterVars == <<rasterTrace>>
timeVars == <<main_time, uniforms_time, frameLog, timesPassed>>
loopVars == <<loop, tick>>
viewVars == <<bird_eye_view, focused_planet, transitioning,
              transition_target_eye, transition_target_center>>

NoTrace == [len |-> 0, screen |-> <<>>, triangles |-> <<>>, reads |-> {},
            fragments |-> 0, drawn |-> <<>>, shaded |-> {},
            uniforms |-> <<>>]
NoLoop == [kind |-> "none"]

\* main up to the frame loop: Framebuffer::new, then
\* set_background_color(0x000000), which stores the value new() stored
InitWith(fb) ==
    /\ framebuffer = fb
    /\ panicked = FALSE
    /\ lastOp = [op |-> "new", args |-> <<>>]
    /\ nops = 0
    /\ writes = {}
    /\ clearColor = BLACK
    /\ requestedBackground = BLACK
    /\ pc = "loop"
    /\ sceneOps = 0
    /\ shaded = Color_new(0, 0, 0)
    /\ renderTrace = NoTrace
    /\ rasterTrace = <<>>
    /\ main_time = 0
    /\ uniforms_time = 0
    /\ frameLog = <<>>
    /\ timesPassed = <<>>
    /\ loop = NoLoop
    /\ tick = 0
    /\ focused_planet = <<>>
    /\ bird_eye_view = FALSE
    /\ transitioning = FALSE
    \* = camera.eye and camera.center, as Camera::new was given them
    /\ transition_target_eye = <<dec(50, 0), dec(100, 0), dec(250, 0)>>
    /\ transition_target_center = <<0, 0, 0>>

InitState == InitWith(set_background_color(new(Width, Height), BLACK))

Init == InitState /\ skybox_texture = tex_black

\* inputs: pixels at the first and the last in-bounds coordinate, and
\* coordinates just past the right and the bottom edge
PointCoords == {<<0, 0>>, <<Width - 1, Height - 1>>,
                <<Width, 0>>, <<Width, Height - 1>>, <<0, Height>>}
\* <<x0, y0, x1, y1>>
Lines == {<<0, 0, Width - 1, Height - 1>>, <<Width, 0, 0, Height - 1>>,
          <<0, Height - 1, 0, 0>>, <<0, 0, 0, 0>>}
\* <<x, y, c, scale>>
CharArgs == {<<0, 0, "N", 1>>, <<1, 0, "N", 2>>, <<0, 0, "N", 2>>,
             <<0, 0, "A", 2>>, <<0, 0, "u_acute", 2>>}
\* <<x, y, text, scale>>
TextArgs == {<<0, 0, <<"N">>, 1>>, <<1, 0, <<"u_acute", "N">>, 2>>,
             <<0, Height - 1, <<"N", "A">>, 2>>}
\* <<cx, cy, radius>>
Circles == {<<0, 0, 0>>, <<0, 0, 1>>, <<1, 1, 1>>, <<Width, Height, 2>>}
\* <<v0, v1, v2>>, coordinates in halves
NdcTriangles == {<<<<-2, 2>>, <<2, 2>>, <<-2, -2>>>>,
                 <<<<0, 0>>, <<2, -2>>, <<-2, 0>>>>}

Pixels == 0..(Width * Height - 1)

\* ---------------------------------------------- Spec: the Framebuffer API
\* one call of a Framebuffer method (or of render_skybox) that returns
Call(name, args, fb) ==
    /\ ~ panicked
    /\ nops < MaxOps
    /\ framebuffer' = fb
    /\ lastOp' = [op |-> name, args |-> args]
    /\ nops' = nops + 1
    /\ requestedBackground' =
           IF name = "set_background_color" THEN args[1]
           ELSE requestedBackground
    /\ UNCHANGED <<panicked, writes, clearColor, mainVars, pipelineVars,
                   rasterVars, timeVars, loopVars, viewVars>>

\* one call that panics
Panic(name, args) ==
    /\ ~ panicked
    /\ nops < MaxOps
    /\ panicked' = TRUE
    /\ lastOp' = [op |-> name, args |-> args]
    /\ nops' = nops + 1
    /\ UNCHANGED <<framebuffer, writes, clearColor, requestedBackground,
                   mainVars, pipelineVars, rasterVars, timeVars, loopVars,
                   viewVars>>

Clear == Call("clear", <<>>, clear(framebuffer))

Point ==
    \E p \in PointCoords, depth \in Depths :
        Call("point", <<p[1], p[2], depth>>,
             point(framebuffer, p[1], p[2], depth))

SetBackgroundColor ==
    \E color \in Colors :
        Call("set_background_color", <<color>>,
             set_background_color(framebuffer, color))

SetCurrentColor ==
    \E color \in Colors :
        Call("set_current_color", <<color>>,
             set_current_color(framebuffer, color))

DrawChar ==
    \E a \in CharArgs :
        \/ /\ draw_char_underflows(a[1], a[3], a[4])
           /\ Panic("draw_char", <<>>)
        \/ Call("draw_char", <<>>,
                draw_char(framebuffer, a[1], a[2], a[3], WHITE, a[4]))

DrawText ==
    \E a \in TextArgs :
        \/ /\ draw_text_underflows(a[1], a[3], a[4])
           /\ Panic("draw_text", <<>>)
        \/ Call("draw_text", <<>>,
                draw_text(framebuffer, a[1], a[2], a[3], WHITE, a[4]))

DrawCircle ==
    \E a \in Circles :
        Call("draw_circle", <<>>,
             draw_circle(framebuffer, a[1], a[2], a[3], GRAY))

DrawTriangle ==
    \E t \in NdcTriangles :
        Call("draw_triangle", <<>>,
             draw_triangle(framebuffer, t[1], t[2], t[3]))

DrawLine ==
    \E l \in Lines :
        Call("draw_line", <<>>,
             draw_line(framebuffer, l[1], l[2], l[3], l[4], GRAY))

RenderSkybox ==
    \E texture \in Textures :
        Call("render_skybox", <<>>, render_skybox(framebuffer, texture))

Next ==
    \/ Clear
    \/ Point
    \/ SetBackgroundColor
    \/ SetCurrentColor
    \/ DrawChar
    \/ DrawText
    \/ DrawCircle
    \/ DrawTriangle
    \/ DrawLine
    \/ RenderSkybox

Spec == Init /\ [][Next]_vars

\* ------------------------------------- SpecPoint: depth-tested writes
\* The calls render makes on the framebuffer between two clears: the draw
\* color is set and point is called with in-bounds coordinates.  Each point
\* call is recorded in writes with the draw color it was issued under.
DrawColors == {GRAY, WHITE}
BackgroundColors == {BLACK, GRAY}
PointPixels == {<<0, 0>>, <<Width - 1, Height - 1>>}

Tracked(name, args, fb, ws, cc) ==
    /\ ~ panicked
    /\ framebuffer' = fb
    /\ lastOp' = [op |-> name, args |-> args]
    /\ writes' = ws
    /\ clearColor' = cc
    /\ requestedBackground' =
           IF name = "set_background_color" THEN args[1]
           ELSE requestedBackground
    /\ UNCHANGED <<panicked, nops, mainVars, pipelineVars, rasterVars,
                   timeVars, loopVars, viewVars>>

TrackedSetCurrentColor ==
    \E color \in DrawColors :
        Tracked("set_current_color", <<color>>,
                set_current_color(framebuffer, color), writes, clearColor)

TrackedSetBackgroundColor ==
    \E color \in BackgroundColors :
        Tracked("set_background_color", <<color>>,
                set_background_color(framebuffer, color), writes, clearColor)

TrackedClear ==
    Tracked("clear", <<>>, clear(framebuffer), {},
            framebuffer.background_color)

TrackedPoint ==
    \E p \in PointPixels, depth \in Depths :
        LET w == [x |-> p[1], y |-> p[2], depth |-> depth,
                  color |-> framebuffer.current_color]
        IN  /\ Cardinality(writes \cup {w}) <= MaxWrites
            /\ Tracked("point", <<p[1], p[2], depth>>,
                       point(framebuffer, p[1], p[2], depth),
                       writes \cup {w}, clearColor)

NextPoint ==
    \/ TrackedSetCurrentColor
    \/ TrackedSetBackgroundColor
    \/ TrackedClear
    \/ TrackedPoint

SpecPoint == Init /\ [][NextPoint]_vars

\* -------------------------------------- SpecFrame: main's frame loop
\* One iteration of `while window.is_open()`: clear, render_skybox, the
\* scene (draw_orbit's draw_line calls and the framebuffer calls render
\* makes per fragment, in the order the planets give), the HUD text, and
\* update_with_buffer.  The geometry that decides which lines and fragments
\* a frame produces is input: each scene step draws its arguments from the
\* sets below.
InitFrame == InitState /\ skybox_texture \in Textures

FragmentCoords == {<<0, 0>>, <<Width - 1, Height - 1>>, <<Width, 0>>}
OrbitLines == {<<0, 0, Width - 1, Height - 1>>, <<Width, 0, 0, Height - 1>>}
\* draw_text(10, 10, &current_view, 0xFFFFFF, 3), brought to the model's
\* framebuffer: <<x, y, text, scale>> with x >= scale - 1 as in main
HudArgs == {<<1, 0, <<"N", "A">>, 2>>, <<1, 0, <<"A", "u_acute">>, 2>>}

\* frames the model follows: `time` (main.rs:241) grows by one per frame
MaxFrames == 2

\* One step of the frame loop.  frameLog is the history of the current
\* iteration: the framebuffer operations made since `while` was entered.
\* main_time is the local `time` (main.rs:241, += 1.0 at 372);
\* uniforms_time is the field uniforms.time (main.rs:217), which no
\* statement of main assigns after the construction; timesPassed[k] holds
\* the values of uniforms.time that render received in frame k (render
\* reads it for each fragment it shades).
FrameStep(from, to, name, args, fb, n) ==
    /\ ~ panicked
    /\ pc = from
    /\ pc' = to
    /\ framebuffer' = fb
    /\ lastOp' = [op |-> name, args |-> args]
    /\ sceneOps' = n
    /\ frameLog' = CASE name = "loop" -> <<>>
                     [] name = "exit" -> frameLog
                     [] OTHER -> Append(frameLog, name)
    /\ main_time' = IF name = "scene_done" THEN main_time + 1
                    ELSE main_time
    /\ uniforms_time' = uniforms_time
    /\ timesPassed' =
           CASE name = "loop" -> Append(timesPassed, {})
             [] name \in {"point", "fragment_skipped"} ->
                    [timesPassed EXCEPT ![Len(timesPassed)] =
                                            @ \cup {uniforms_time}]
             [] OTHER -> timesPassed
    /\ UNCHANGED <<panicked, nops, writes, clearColor, requestedBackground,
                   skybox_texture, pipelineVars, rasterVars, loopVars,
                   viewVars>>

\* a frame loop that goes from the loop head straight to render_skybox,
\* without framebuffer.clear()
FrameBegin_skips_clear ==
    /\ main_time < MaxFrames
    /\ FrameStep("loop", "skybox", "loop", <<>>, framebuffer, 0)

\* window.is_open() and Escape is not down: the frame starts (the camera
\* and key handling of lines 248-314 do not touch the framebuffer)
FrameBegin ==
    /\ main_time < MaxFrames
    /\ FrameStep("loop", "clear", "loop", <<>>, framebuffer, 0)

\* the window was closed or Escape is down
FrameExit == FrameStep("loop", "done", "exit", <<>>, framebuffer, 0)

FrameClear == FrameStep("clear", "skybox", "clear", <<>>,
                        clear(framebuffer), 0)

FrameSkybox ==
    FrameStep("skybox", "scene", "render_skybox", <<>>,
              render_skybox(framebuffer, skybox_texture), 0)

\* draw_orbit: one framebuffer.draw_line(prev_x, prev_y, x, y, 0xAAAAAA)
FrameOrbitLine ==
    \E l \in OrbitLines :
        /\ sceneOps < MaxSceneOps
        /\ FrameStep("scene", "scene", "draw_line", <<>>,
                     draw_line(framebuffer, l[1], l[2], l[3], l[4], GRAY),
                     sceneOps + 1)

FrameFragment ==
    \E p \in FragmentCoords, depth \in Depths, color \in DrawColors :
        /\ sceneOps < MaxSceneOps
        /\ FrameStep("scene", "scene",
                     IF p[1] < Width /\ p[2] < Height
                     THEN "point" ELSE "fragment_skipped",
                     <<p[1], p[2], depth>>,
                     render_fragment(framebuffer, p[1], p[2], depth, color),
                     sceneOps + 1)

\* the scene is drawn; time += 1.0
FrameSceneDone == FrameStep("scene", "hud", "scene_done", <<>>,
                            framebuffer, sceneOps)

FrameHud ==
    \E a \in HudArgs :
        FrameStep("hud", "present", "draw_text", <<>>,
                  draw_text(framebuffer, a[1], a[2], a[3], WHITE, a[4]),
                  sceneOps)

\* window.update_with_buffer(&framebuffer.buffer, ..)
FramePresent == FrameStep("present", "loop", "update_with_buffer", <<>>,
                          framebuffer, sceneOps)

NextFrame ==
    \/ FrameBegin
    \/ FrameExit
    \/ FrameClear
    \/ FrameSkybox
    \/ FrameOrbitLine
    \/ FrameFragment
    \/ FrameSceneDone
    \/ FrameHud
    \/ FramePresent

SpecFrame == InitFrame /\ [][NextFrame]_vars

\* ----------------------------------------- SpecShader: select_shader calls
\* select_shader applied to material indices, fragments and uniforms drawn
\* from the sets below.
MaxShaderIndex == 10

\* every index up to MaxShaderIndex, and the largest usize
ShaderIndices == (0..MaxShaderIndex) \cup {UsizeModulus - 1}

translation(t) ==
    <<<<Scale, 0, 0, t[1]>>, <<0, Scale, 0, t[2]>>, <<0, 0, Scale, t[3]>>,
      <<0, 0, 0, Scale>>>>

\* main's uniforms: time 0 and the matrices of the frame
Uniforms_new(model_matrix, time, noise) ==
    [model_matrix |-> model_matrix, view_matrix |-> identity4,
     projection_matrix |-> identity4, viewport_matrix |-> identity4,
     time |-> time, noise |-> noise]

Noises == {[offset |-> - dec(0, 50), slope |-> 0],
           [offset |-> dec(0, 80), slope |-> 0],
           [offset |-> dec(0, 20), slope |-> 7]}

UniformsSet ==
    {Uniforms_new(identity4, 0, n) : n \in Noises}
    \cup {Uniforms_new(translation(<<dec(1, 0), 0, 0>>), 5, n) :
             n \in Noises}

\* a fragment facing the sun, one facing away, one at the sun's own
\* position, and one further out with another color and depth
Fragments ==
    {Fragment_new(<<0, 0>>, Color_new(255, 255, 255), dec(1, 0),
                  <<- dec(1, 0), 0, 0>>, 0, <<dec(1, 0), 0, 0>>),
     Fragment_new(<<0, 0>>, Color_new(255, 255, 255), dec(1, 0),
                  <<dec(1, 0), 0, 0>>, 0, <<dec(1, 0), 0, 0>>),
     Fragment_new(<<dec(1, 0), 0>>, Color_new(255, 0, 0), dec(2, 0),
                  <<0, 0, dec(1, 0)>>, 0, <<0, 0, 0>>),
     Fragment_new(<<dec(1, 0), dec(1, 0)>>, Color_new(0, 0, 255), dec(3, 0),
                  <<0, 0, - dec(1, 0)>>, 0,
                  <<dec(0, 30), dec(0, 40), dec(1, 20)>>)}

Shade ==
    \E index \in ShaderIndices, fragment \in Fragments,
       uniforms \in UniformsSet :
        /\ ~ panicked
        /\ shaded' = select_shader(index, fragment, uniforms)
        /\ lastOp' = [op |-> "select_shader",
                      args |-> <<index, fragment, uniforms>>]
        /\ UNCHANGED <<framebuffer, panicked, nops, writes, clearColor,
                       requestedBackground, mainVars, renderTrace,
                       rasterVars, timeVars, loopVars, viewVars>>

NextShader == Shade

SpecShader == Init /\ [][NextShader]_vars

\* ------------------------------------------------ SpecRender: render calls
\* render applied to vertex arrays of every length up to MaxVerts, a few
\* times in a row on the same framebuffer.  The rasterizer is clamped to
\* the framebuffer's extent, or to an extent up to MaxOverscan pixels wider
\* and higher, so that render is handed fragments outside the framebuffer.
MaxVerts == 7
MaxRenders == 2
MaxOverscan == 1

\* vertex k of a mesh.  "cover": triangles over the corner at the origin,
\* each one unit deeper than the one before.  "line": vertices along the
\* diagonal, one pixel apart.  "dot": every vertex on the same pixel.
mesh_vertex(kind, k) ==
    CASE kind = "cover" ->
            Vertex_new(
                IF k % 3 = 0 THEN <<0, 0, dec(1 + k \div 3, 0)>>
                ELSE IF k % 3 = 1
                THEN <<dec(Width, 0), 0, dec(1 + k \div 3, 0)>>
                ELSE <<0, dec(Height, 0), dec(1 + k \div 3, 0)>>,
                <<0, 0, dec(1, 0)>>, Color_new(255, 255, 255))
      [] kind = "line" ->
            Vertex_new(<<dec(k % 3, 0), dec(k % 3, 0), dec(1, 0)>>,
                       <<0, 0, dec(1, 0)>>, Color_new(255, 0, 0))
      [] kind = "dot" ->
            Vertex_new(<<0, 0, dec(1, 0)>>, <<0, 0, 0>>,
                       Color_new(0, 0, 255))

mesh(kind, n) == [k \in 1..n |-> mesh_vertex(kind, k - 1)]

uniforms_identity == Uniforms_new(identity4, 0, [offset |-> 0, slope |-> 0])
\* the model matrix moves the mesh one pixel to the right
uniforms_shifted ==
    Uniforms_new(translation(<<dec(1, 0), 0, 0>>), 0,
                 [offset |-> 0, slope |-> 0])

\* the model matrix moves the mesh half a unit nearer
uniforms_nearer ==
    Uniforms_new(translation(<<0, 0, - dec(0, 50)>>), 0,
                 [offset |-> 0, slope |-> 0])

\* <<kind of mesh, uniforms, material index>>
RenderCalls ==
    {<<"cover", uniforms_identity, 0>>, <<"cover", uniforms_shifted, 8>>,
     <<"cover", uniforms_nearer, 8>>,
     <<"line", uniforms_identity, 8>>, <<"line", uniforms_shifted, 0>>,
     <<"dot", uniforms_identity, 0>>}

Render ==
    \E call \in RenderCalls, n \in 0..MaxVerts, overscan \in 0..MaxOverscan :
        \E r \in {IF overscan = 0
                  THEN render(framebuffer, call[2], mesh(call[1], n),
                              call[3])
                  ELSE render_clamped_to(framebuffer, call[2],
                                         mesh(call[1], n), call[3],
                                         framebuffer.width + overscan,
                                         framebuffer.height + overscan)} :
            /\ ~ panicked
            /\ nops < MaxRenders
            /\ nops' = nops + 1
            /\ framebuffer' = r.framebuffer
            /\ panicked' = r.panicked
            /\ renderTrace' = [len |-> r.len, screen |-> r.screen,
                               triangles |-> r.triangles,
                               reads |-> r.reads,
                               fragments |-> r.fragments,
                               drawn |-> r.drawn, shaded |-> r.shaded,
                               uniforms |-> r.uniforms]
            /\ lastOp' = [op |-> "render", args |-> <<call[3]>>]
            /\ UNCHANGED <<writes, clearColor, requestedBackground,
                           mainVars, shaded, rasterVars, timeVars,
                           loopVars, viewVars>>

NextRender == Render

SpecRender == Init /\ [][NextRender]_vars

\* ------------------------------------- SpecRaster: triangles to pixels
\* The rasterizer and the fragment loop of render on framebuffers of every
\* size up to MaxRasterSide: one triangle, or two triangles that share an
\* edge, given by the screen positions of the vertices, all at one depth,
\* every fragment shaded with one color.
MaxRasterSide == 6
MaxRasterOps == 2

\* a transformed vertex at pixel p, at the given depth
screen_vertex(p, depth) ==
    [Vertex_new(<<dec(p[1], 0), dec(p[2], 0), 0>>, <<0, 0, dec(1, 0)>>,
                Color_new(255, 255, 255))
        EXCEPT !.transformed_position = <<dec(p[1], 0), dec(p[2], 0), depth>>]

ExampleTriangle == <<<<0, 0>>, <<4, 0>>, <<0, 4>>>>

\* <<triangle, depth, shaded color>>: the example, the example wound the
\* other way, a triangle that reaches past the right edge, a sliver, and a
\* triangle of no area
RasterDraws ==
    {<<ExampleTriangle, dec(1, 0), WHITE>>,
     <<ExampleTriangle, dec(2, 0), GRAY>>,
     <<<<<<0, 0>>, <<0, 4>>, <<4, 0>>>>, dec(1, 0), GRAY>>,
     <<<<<<2, 1>>, <<7, 1>>, <<2, 3>>>>, dec(1, 0), WHITE>>,
     <<<<<<0, 0>>, <<5, 1>>, <<1, 5>>>>, dec(2, 0), WHITE>>,
     <<<<<<1, 1>>, <<2, 2>>, <<3, 3>>>>, dec(1, 0), WHITE>>}

\* <<first triangle, second triangle, the two ends of the shared edge>>
AdjacentPairs ==
    {<<ExampleTriangle, <<<<4, 0>>, <<4, 4>>, <<0, 4>>>>,
       <<<<4, 0>>, <<0, 4>>>>>>,
     <<<<<<0, 0>>, <<2, 0>>, <<2, 3>>>>, <<<<2, 0>>, <<4, 0>>, <<2, 3>>>>,
       <<<<2, 0>>, <<2, 3>>>>>>,
     <<<<<<0, 0>>, <<3, 0>>, <<0, 1>>>>, <<<<3, 0>>, <<3, 1>>, <<0, 1>>>>,
       <<<<3, 0>>, <<0, 1>>>>>>}

\* <<width, height>> of the framebuffers
RasterSizes ==
    {<<1, 1>>, <<3, 1>>, <<2, 4>>, <<5, 5>>,
     <<MaxRasterSide, MaxRasterSide>>}

\* triangle::triangle on the three screen vertices of t
rasterize(t, depth, width, height) ==
    triangle(screen_vertex(t[1], depth), screen_vertex(t[2], depth),
             screen_vertex(t[3], depth), width, height)

\* the pixels <<x, y>> of a sequence of fragments
fragment_pixels(fragments) ==
    {<<f32_as_usize(fragments[k].position[1]),
       f32_as_usize(fragments[k].position[2])>> : k \in 1..Len(fragments)}

InitRaster ==
    /\ \E size \in RasterSizes :
          InitWith(set_background_color(new(size[1], size[2]), BLACK))
    /\ skybox_texture = tex_black

RasterStep(name, args, fb, trace) ==
    /\ ~ panicked
    /\ nops < MaxRasterOps
    /\ nops' = nops + 1
    /\ framebuffer' = fb
    /\ rasterTrace' = trace
    /\ lastOp' = [op |-> name, args |-> args]
    /\ UNCHANGED <<panicked, writes, clearColor, requestedBackground,
                   mainVars, pipelineVars, timeVars, loopVars, viewVars>>

RasterClear == RasterStep("clear", <<>>, clear(framebuffer), <<>>)

RasterTriangle ==
    \E draw \in RasterDraws :
        \E fragments \in {rasterize(draw[1], draw[2], framebuffer.width,
                                    framebuffer.height)} :
            RasterStep("rasterize", draw,
                       write_fragments(framebuffer, fragments, 1, draw[3]),
                       <<fragment_pixels(fragments)>>)

RasterPair ==
    \E pair \in AdjacentPairs :
        \E first \in {rasterize(pair[1], dec(1, 0), framebuffer.width,
                                framebuffer.height)},
           second \in {rasterize(pair[2], dec(1, 0), framebuffer.width,
                                 framebuffer.height)} :
            RasterStep("rasterize_pair", <<pair, dec(1, 0), GRAY>>,
                       write_fragments(framebuffer, first \o second, 1,
                                       GRAY),
                       <<fragment_pixels(first), fragment_pixels(second)>>)

NextRaster ==
    \/ RasterClear
    \/ RasterTriangle
    \/ RasterPair

SpecRaster == InitRaster /\ [][NextRaster]_vars

\* --------------------------------- SpecRing: the ring material by radius
\* select_shader(8, ..) on fragments whose reference position runs through
\* the bands: x in steps of 0.05 from 0 up to MaxRingSteps steps, z at 0
\* and at 0.40, under two normals and the uniforms of SpecShader that have
\* the varying noise field (time 0, and time 5 with a translation).
MaxRingSteps == 30

RingUniforms == {u \in UniformsSet : u.noise.slope # 0}

RingFragments ==
    {Fragment_new(<<0, 0>>, Color_new(255, 255, 255), dec(1, 0), normal, 0,
                  <<5 * k, y, z>>) :
        k \in 0..MaxRingSteps, y \in {0, dec(2, 0)}, z \in {0, dec(0, 40)},
        normal \in {<<- dec(1, 0), 0, 0>>, <<0, dec(1, 0), 0>>}}

ShadeRing ==
    \E fragment \in RingFragments, uniforms \in RingUniforms :
        /\ ~ panicked
        /\ shaded' = select_shader(8, fragment, uniforms)
        /\ lastOp' = [op |-> "select_shader",
                      args |-> <<8, fragment, uniforms>>]
        /\ UNCHANGED <<framebuffer, panicked, nops, writes, clearColor,
                       requestedBackground, mainVars, renderTrace,
                       rasterVars, timeVars, loopVars, viewVars>>

NextRing == ShadeRing

SpecRing == Init /\ [][NextRing]_vars

\* ------------------------------ SpecLoops: the loops of a frame, stepwise
\* A frame in which every loop runs one iteration per step: the Bresenham
\* loop of draw_line, the midpoint loop of draw_circle, the four loops of
\* render (vertices, triangle assembly, rasterization, fragments) and the
\* ring loop of render_saturn_rings.  `loop` holds the local variables of
\* the loop that is running; a step evaluates the loop condition once and,
\* when it holds, runs the body once.
MaxLoopCalls == 1
num_rings == 50

\* let mut x0 = x0 as isize; .. let mut err = dx + dy;
draw_line_start(x0, y0, x1, y1, color) ==
    [kind |-> "draw_line", x0 |-> x0, y0 |-> y0, x1 |-> x1, y1 |-> y1,
     dx |-> abs(x1 - x0), dy |-> - abs(y1 - y0),
     sx |-> IF x0 < x1 THEN 1 ELSE -1,
     sy |-> IF y0 < y1 THEN 1 ELSE -1,
     err |-> abs(x1 - x0) - abs(y1 - y0), color |-> color]

\* while x0 != x1 || y0 != y1 { .. }: one evaluation of the condition and,
\* if it holds, one run of the body
draw_line_iteration(fb, l) ==
    IF ~ (l.x0 # l.x1 \/ l.y0 # l.y1)
    THEN [framebuffer |-> fb, loop |-> NoLoop]
    ELSE LET fb1 == IF /\ l.x0 >= 0 /\ l.x0 < fb.width
                       /\ l.y0 >= 0 /\ l.y0 < fb.height
                    THEN paint(fb, {<<l.x0, l.y0>>}, l.color)
                    ELSE fb
             e2 == 2 * l.err
             stepx == e2 >= l.dy
             stepy == e2 <= l.dx
         IN  IF (stepx /\ l.x0 = l.x1) \/ (stepy /\ l.y0 = l.y1)
             THEN [framebuffer |-> fb1, loop |-> NoLoop]
             ELSE [framebuffer |-> fb1,
                   loop |-> [l EXCEPT
                       !.x0 = IF stepx THEN l.x0 + l.sx ELSE l.x0,
                       !.y0 = IF stepy THEN l.y0 + l.sy ELSE l.y0,
                       !.err = l.err + (IF stepx THEN l.dy ELSE 0)
                                     + (IF stepy THEN l.dx ELSE 0)]]

\* let mut x = radius as isize; let mut y = 0; let mut err = 0;
draw_circle_start(cx, cy, radius, color) ==
    [kind |-> "draw_circle", cx |-> cx, cy |-> cy, x |-> radius, y |-> 0,
     err |-> 0, color |-> color]

\* while x >= y { .. }
draw_circle_iteration(fb, l) ==
    IF ~ (l.x >= l.y)
    THEN [framebuffer |-> fb, loop |-> NoLoop]
    ELSE LET y1 == l.y + 1
             err1 == l.err + 1 + 2 * y1
             shrink == 2 * (err1 - l.x) + 1 > 0
         IN  [framebuffer |->
                  plot_circle_points(fb, l.cx, l.cy, l.x, l.y, l.color),
              loop |-> [l EXCEPT
                  !.y = y1,
                  !.x = IF shrink THEN l.x - 1 ELSE l.x,
                  !.err = IF shrink THEN err1 + 1 - 2 * (l.x - 1)
                          ELSE err1]]

\* render is entered; ring is the `i` of render_saturn_rings' loop, or -1
\* for a call from main
render_start(uniforms, vertex_array, index, ring) ==
    [kind |-> "vertices", uniforms |-> uniforms,
     vertex_array |-> vertex_array, index |-> index, i |-> 0,
     transformed_vertices |-> <<>>, triangles |-> <<>>,
     fragments |-> <<>>, ring |-> ring]

\* for vertex in vertex_array { .. }
vertices_iteration(l) ==
    IF l.i < Len(l.vertex_array)
    THEN [l EXCEPT
             !.transformed_vertices =
                 Append(@, vertex_shader(l.vertex_array[l.i + 1],
                                         l.uniforms)),
             !.i = l.i + 1]
    ELSE [l EXCEPT !.kind = "triangles", !.i = 0]

\* for i in (0..transformed_vertices.len()).step_by(3) { .. }
triangles_iteration(l) ==
    IF l.i < Len(l.transformed_vertices)
    THEN [l EXCEPT
             !.triangles = IF l.i + 2 < Len(l.transformed_vertices)
                           THEN Append(@, <<l.i, l.i + 1, l.i + 2>>)
                           ELSE @,
             !.i = l.i + 3]
    ELSE [l EXCEPT !.kind = "rasterize", !.i = 0]

\* for tri in &triangles { fragments.extend(triangle::triangle(..)) }
rasterize_iteration(l, width, height) ==
    IF l.i < Len(l.triangles)
    THEN [l EXCEPT
             !.fragments =
                 @ \o triangle(
                          l.transformed_vertices[l.triangles[l.i + 1][1] + 1],
                          l.transformed_vertices[l.triangles[l.i + 1][2] + 1],
                          l.transformed_vertices[l.triangles[l.i + 1][3] + 1],
                          width, height),
             !.i = l.i + 1]
    ELSE [l EXCEPT !.kind = "fragments", !.i = 0]

\* the model matrix of ring i (create_model_matrix at an angle of
\* 2 * PI * i / num_rings), from the two the model has
ring_uniforms(i) == IF i % 2 = 0 THEN uniforms_identity ELSE uniforms_shifted

\* a ring loop whose counter stays where it is
next_ring_stuck(i) == i

\* for i in 0..num_rings: the next value of i
next_ring(i) == i + 1

\* render returns: to main, or to the ring loop, which calls render for
\* the next ring or is done
render_return(l) ==
    IF l.ring >= 0 /\ next_ring(l.ring) < num_rings
    THEN render_start(ring_uniforms(next_ring(l.ring)), l.vertex_array,
                      l.index, next_ring(l.ring))
    ELSE NoLoop

\* for fragment in fragments { .. }
fragments_iteration(fb, l) ==
    IF l.i < Len(l.fragments)
    THEN [framebuffer |->
              render_fragment(
                  fb, f32_as_usize(l.fragments[l.i + 1].position[1]),
                  f32_as_usize(l.fragments[l.i + 1].position[2]),
                  l.fragments[l.i + 1].depth,
                  to_hex(select_shader(l.index, l.fragments[l.i + 1],
                                       l.uniforms))),
          loop |-> [l EXCEPT !.i = l.i + 1]]
    ELSE [framebuffer |-> fb, loop |-> render_return(l)]

\* the calls of a scene: <<function, arguments>>; a line across the
\* framebuffer, one that starts outside it and one of length zero, circles
\* of radius 0, 1 and 2, meshes of 4, 3 and 0 vertices, and the rings
LoopCalls ==
    {<<"draw_line", <<0, 0, Width - 1, Height - 1>>>>,
     <<"draw_line", <<Width, 0, 0, Height - 1>>>>,
     <<"draw_line", <<0, 0, 0, 0>>>>,
     <<"draw_circle", <<0, 0, 0>>>>,
     <<"draw_circle", <<1, 1, 1>>>>,
     <<"draw_circle", <<Width, Height, 2>>>>,
     <<"render", <<"cover", 4, 0>>>>,
     <<"render", <<"line", 3, 8>>>>,
     <<"render", <<"dot", 0, 0>>>>,
     <<"render_saturn_rings", <<"cover", 3, 8>>>>}

call_start(call) ==
    CASE call[1] = "draw_line" ->
            draw_line_start(call[2][1], call[2][2], call[2][3], call[2][4],
                            GRAY)
      [] call[1] = "draw_circle" ->
            draw_circle_start(call[2][1], call[2][2], call[2][3], GRAY)
      [] call[1] = "render" ->
            render_start(uniforms_identity, mesh(call[2][1], call[2][2]),
                         call[2][3], -1)
      [] call[1] = "render_saturn_rings" ->
            render_start(ring_uniforms(0), mesh(call[2][1], call[2][2]),
                         call[2][3], 0)

InitLoops == InitState /\ skybox_texture = tex_stars

\* while window.is_open(): the frame starts with clear and render_skybox
LoopsFrameBegin ==
    /\ ~ panicked
    /\ pc = "loop"
    /\ main_time < MaxFrames
    /\ pc' = "scene"
    /\ framebuffer' = render_skybox(clear(framebuffer), skybox_texture)
    /\ lastOp' = [op |-> "render_skybox", args |-> <<>>]
    /\ nops' = 0
    /\ frameLog' = <<"clear", "render_skybox">>
    /\ UNCHANGED <<panicked, writes, clearColor, requestedBackground,
                   skybox_texture, sceneOps, pipelineVars, rasterVars,
                   main_time, uniforms_time, timesPassed, loopVars,
                   viewVars>>

\* the window was closed or Escape is down
LoopsExit ==
    /\ ~ panicked
    /\ pc = "loop"
    /\ pc' = "done"
    /\ lastOp' = [op |-> "exit", args |-> <<>>]
    /\ UNCHANGED <<framebuffer, panicked, nops, writes, clearColor,
                   requestedBackground, skybox_texture, sceneOps,
                   pipelineVars, rasterVars, timeVars, loopVars, viewVars>>

\* the scene calls a function that loops
LoopsCall ==
    \E call \in LoopCalls :
        /\ ~ panicked
        /\ pc = "scene"
        /\ loop = NoLoop
        /\ nops < MaxLoopCalls
        /\ nops' = nops + 1
        /\ loop' = call_start(call)
        /\ tick' = 1 - tick
        /\ lastOp' = [op |-> call[1], args |-> call[2]]
        /\ frameLog' = Append(frameLog, call[1])
        /\ UNCHANGED <<framebuffer, panicked, writes, clearColor,
                       requestedBackground, mainVars, pipelineVars,
                       rasterVars, main_time, uniforms_time, timesPassed,
                       viewVars>>

\* one iteration of the running loop
LoopsStep(kind, fb, l) ==
    /\ ~ panicked
    /\ pc = "scene"
    /\ loop.kind = kind
    /\ framebuffer' = fb
    /\ loop' = l
    /\ tick' = 1 - tick
    /\ UNCHANGED <<panicked, lastOp, nops, writes, clearColor,
                   requestedBackground, mainVars, pipelineVars, rasterVars,
                   timeVars, viewVars>>

LoopsDrawLine ==
    /\ loop.kind = "draw_line"
    /\ \E r \in {draw_line_iteration(framebuffer, loop)} :
           LoopsStep("draw_line", r.framebuffer, r.loop)

LoopsDrawCircle ==
    /\ loop.kind = "draw_circle"
    /\ \E r \in {draw_circle_iteration(framebuffer, loop)} :
           LoopsStep("draw_circle", r.framebuffer, r.loop)

LoopsVertices ==
    /\ loop.kind = "vertices"
    /\ LoopsStep("vertices", framebuffer, vertices_iteration(loop))

LoopsTriangles ==
    /\ loop.kind = "triangles"
    /\ LoopsStep("triangles", framebuffer, triangles_iteration(loop))

LoopsRasterize ==
    /\ loop.kind = "rasterize"
    /\ LoopsStep("rasterize", framebuffer,
                 rasterize_iteration(loop, framebuffer.width,
                                     framebuffer.height))

LoopsFragments ==
    /\ loop.kind = "fragments"
    /\ \E r \in {fragments_iteration(framebuffer, loop)} :
           LoopsStep("fragments", r.framebuffer, r.loop)

\* the scene is drawn: time += 1.0, then the HUD text
LoopsHud ==
    \E a \in HudArgs :
        /\ ~ panicked
        /\ pc = "scene"
        /\ loop = NoLoop
        /\ pc' = "present"
        /\ main_time' = main_time + 1
        /\ framebuffer' = draw_text(framebuffer, a[1], a[2], a[3], WHITE,
                                    a[4])
        /\ lastOp' = [op |-> "draw_text", args |-> <<>>]
        /\ frameLog' = Append(frameLog, "draw_text")
        /\ tick' = 1 - tick
        /\ UNCHANGED <<panicked, nops, writes, clearColor,
                       requestedBackground, skybox_texture, sceneOps,
                       pipelineVars, rasterVars, uniforms_time, timesPassed,
                       loop, viewVars>>

\* window.update_with_buffer(&framebuffer.buffer, ..)
LoopsPresent ==
    /\ ~ panicked
    /\ pc = "present"
    /\ pc' = "loop"
    /\ lastOp' = [op |-> "update_with_buffer", args |-> <<>>]
    /\ frameLog' = Append(frameLog, "update_with_buffer")
    /\ tick' = 1 - tick
    /\ UNCHANGED <<framebuffer, panicked, nops, writes, clearColor,
                   requestedBackground, skybox_texture, sceneOps,
                   pipelineVars, rasterVars, main_time, uniforms_time,
                   timesPassed, loop, viewVars>>

\* the statements of a frame that has started: main runs them one after
\* the other, on one thread, without waiting for anything
LoopsRun ==
    \/ LoopsCall
    \/ LoopsDrawLine
    \/ LoopsDrawCircle
    \/ LoopsVertices
    \/ LoopsTriangles
    \/ LoopsRasterize
    \/ LoopsFragments
    \/ LoopsHud
    \/ LoopsPresent

NextLoops ==
    \/ LoopsFrameBegin
    \/ LoopsExit
    \/ LoopsRun

\* Inside a frame main waits for nothing (no suspension point, no lock, no
\* blocking call before the hand-off): as long as it is inside a frame it
\* makes its next step.  Every step of LoopsRun, and no other step, flips
\* `tick`, and LoopsRun is enabled in every state inside a frame, so this is
\* weak fairness of LoopsRun, stated on the variable that shows a step.
LoopsRunning ==
    /\ ~ panicked
    /\ pc \in {"scene", "present"}
    /\ tick' = 1 - tick

SpecLoops == InitLoops /\ [][NextLoops]_vars /\ WF_tick(LoopsRunning)

\* ------------------------------ SpecView: keys, view and camera target
\* The part of an iteration of `while window.is_open()` that handles the B
\* key and the planet keys and names the view (main.rs:244-314, 375-381).
\* The keys pressed in a frame are input.  The camera itself (camera.rs,
\* moved by handle_input and by the transition) is not part of the state:
\* nothing of the view state is computed from it except the test that ends
\* a transition, whose outcome is input.

\* Planet { name, distance_from_sun, radius, orbit_speed, color_index }:
\* f32 fields in fixed point, orbit_speed in thousandths
Planet(name, distance_from_sun, radius, orbit_speed, color_index) ==
    [name |-> name, distance_from_sun |-> distance_from_sun,
     radius |-> radius, orbit_speed |-> orbit_speed,
     color_index |-> color_index]

\* planets[i + 1] here is planets[i] of main; "Jupiter" stands for the
\* name with its accented u
planets ==
    <<Planet("Sol", 0, dec(3, 0), 0, 0),
      Planet("Mercurio", dec(20, 0), dec(0, 50), 3, 1),
      Planet("Venus", dec(40, 0), dec(0, 80), 5, 2),
      Planet("Tierra", dec(60, 0), dec(1, 0), 7, 3),
      Planet("Marte", dec(80, 0), dec(0, 70), 9, 4),
      Planet("Jupiter", dec(100, 0), dec(2, 0), 1, 5),
      Planet("Saturno", dec(120, 0), dec(1, 80), 3, 6),
      Planet("Urano", dec(140, 0), dec(1, 50), 5, 7)>>

planet_key_map ==
    <<<<"M", planets[2]>>, <<"V", planets[3]>>, <<"E", planets[4]>>,
      <<"R", planets[5]>>, <<"J", planets[6]>>, <<"N", planets[7]>>,
      <<"U", planets[8]>>>>

\* the view state of main as one record
View(bird, focused, moving, target_eye, target_center) ==
    [bird_eye_view |-> bird, focused_planet |-> focused,
     transitioning |-> moving, transition_target_eye |-> target_eye,
     transition_target_center |-> target_center]

\* if window.is_key_pressed(Key::B, ..) { .. }
bird_eye_key(view, pressed) ==
    IF ~ pressed THEN view
    ELSE IF ~ view.bird_eye_view
    THEN View(TRUE, view.focused_planet, TRUE,
              <<0, dec(500, 0), dec(200, 0)>>, <<0, 0, 0>>)
    ELSE View(FALSE, view.focused_planet, TRUE,
              <<dec(50, 0), dec(100, 0), dec(250, 0)>>, <<0, 0, 0>>)

\* the body of `for (key, planet) in planet_key_map` for a pressed key
planet_key(view, planet) ==
    IF view.focused_planet = <<planet>>
    THEN View(view.bird_eye_view, <<>>, TRUE,
              <<dec(50, 0), dec(100, 0), dec(250, 0)>>, <<0, 0, 0>>)
    ELSE View(view.bird_eye_view, <<planet>>, TRUE,
              <<planet.distance_from_sun + dec(20, 0),
                fmul(planet.radius, dec(2, 0)), 0>>,
              <<planet.distance_from_sun, 0, 0>>)

\* for (key, planet) in planet_key_map { if is_key_pressed(key) { .. } }
RECURSIVE planet_keys(_, _, _)
planet_keys(view, k, pressed) ==
    IF k > Len(planet_key_map) THEN view
    ELSE planet_keys(IF planet_key_map[k][1] \in pressed
                     THEN planet_key(view, planet_key_map[k][2])
                     ELSE view,
                     k + 1, pressed)

\* if transitioning { camera.eye = lerp(..); ..; if both are within 0.1 of
\* their targets { transitioning = false } }
transition(view, arrived) ==
    IF view.transitioning /\ arrived
    THEN [view EXCEPT !.transitioning = FALSE]
    ELSE view

\* let current_view = ..: the label of the frame
current_view ==
    IF focused_planet # <<>> THEN focused_planet[1].name
    ELSE IF bird_eye_view THEN "BIRD EYE"
    ELSE "NAVE"

\* the keys of the view, and the sets of them that go down in one frame:
\* B or not, with up to MaxPlanetKeys planet keys
MaxPlanetKeys == 2
Keys == {"B", "M", "V", "E", "R", "J", "N", "U"}
KeySets == {ks \in SUBSET Keys : Cardinality(ks \ {"B"}) <= MaxPlanetKeys}

\* one iteration of the frame loop, as far as the view goes
ViewFrame ==
    \E ks \in KeySets, arrived \in BOOLEAN :
        \E view \in {transition(
                         planet_keys(
                             bird_eye_key(
                                 View(bird_eye_view, focused_planet,
                                      transitioning, transition_target_eye,
                                      transition_target_center),
                                 "B" \in ks),
                             1, ks),
                         arrived)} :
            /\ ~ panicked
            /\ pc = "loop"
            /\ bird_eye_view' = view.bird_eye_view
            /\ focused_planet' = view.focused_planet
            /\ transitioning' = view.transitioning
            /\ transition_target_eye' = view.transition_target_eye
            /\ transition_target_center' = view.transition_target_center
            /\ lastOp' = [op |-> "frame", args |-> <<ks>>]
            /\ UNCHANGED <<framebuffer, panicked, nops, writes, clearColor,
                           requestedBackground, mainVars, pipelineVars,
                           rasterVars, timeVars, loopVars>>

\* the window was closed or Escape is down
ViewExit ==
    /\ ~ panicked
    /\ pc = "loop"
    /\ pc' = "done"
    /\ lastOp' = [op |-> "exit", args |-> <<>>]
    /\ UNCHANGED <<framebuffer, panicked, nops, writes, clearColor,
                   requestedBackground, skybox_texture, sceneOps,
                   pipelineVars, rasterVars, timeVars, loopVars, viewVars>>

NextView ==
    \/ ViewFrame
    \/ ViewExit

SpecView == Init /\ [][NextView]_vars

\* ================================================== claims on point/clear
index_of(x, y) == y * Width + x

\* the recorded writes aimed at pixel i
writes_at(i) == {w \in writes : index_of(w.x, w.y) = i}

\* the recorded writes aimed at pixel i whose depth is below +infinity (a
\* write at depth +infinity or NaN passes no depth test)
effective_at(i) == {w \in writes_at(i) : f32_lt(w.depth, INFINITY)}

\* the writes aimed at one pixel have pairwise different depths
PairwiseDifferentDepths ==
    \A w1 \in writes, w2 \in writes :
        (w1 # w2 /\ index_of(w1.x, w1.y) = index_of(w2.x, w2.y))
            => f32_ne(w1.depth, w2.depth)

\* C1: nearest-wins is order-independent.  Whenever the writes issued since
\* the last clear have pairwise different depths per pixel, the color and
\* depth buffers are the function of the SET of writes (and of the cleared
\* color) given here, whatever the order the writes came in: a pixel that
\* some write reached holds the color and depth of the write of smallest
\* depth aimed at it, every other pixel is as clear() left it.
C1_NearestWinsAnyOrder ==
    PairwiseDifferentDepths =>
        \A i \in Pixels :
            IF effective_at(i) = {}
            THEN /\ framebuffer.buffer[i] = clearColor
                 /\ framebuffer.zbuffer[i] = INFINITY
            ELSE \E w \in effective_at(i) :
                    /\ \A v \in effective_at(i) : ~ f32_lt(v.depth, w.depth)
                    /\ framebuffer.buffer[i] = w.color
                    /\ framebuffer.zbuffer[i] = w.depth

\* C1 witness: three writes of pairwise different finite depths and two
\* colors to one pixel, the last of them not the nearest and of another
\* color than the one the pixel holds.
C1_Witness ==
    /\ Cardinality(writes) = 3
    /\ PairwiseDifferentDepths
    /\ \E i \in Pixels : effective_at(i) = writes
    /\ lastOp.op = "point"
    /\ f32_gt(lastOp.args[3],
              framebuffer.zbuffer[index_of(lastOp.args[1], lastOp.args[2])])
    /\ framebuffer.current_color #
           framebuffer.buffer[index_of(lastOp.args[1], lastOp.args[2])]

\* C2: an in-bounds point(x, y, depth) stores the draw color and depth iff
\* depth is strictly below the stored depth; otherwise (equal, greater, NaN)
\* the pixel's color and depth stay, so a tie keeps the earlier write.  No
\* other pixel changes.
C2_StrictDepthTest ==
    [][lastOp'.op = "point" =>
         LET x == lastOp'.args[1]
             y == lastOp'.args[2]
             depth == lastOp'.args[3]
         IN  (x < Width /\ y < Height) =>
             /\ IF f32_lt(depth, framebuffer.zbuffer[index_of(x, y)])
                THEN /\ framebuffer'.buffer[index_of(x, y)] =
                            framebuffer.current_color
                     /\ framebuffer'.zbuffer[index_of(x, y)] = depth
                ELSE /\ framebuffer'.buffer[index_of(x, y)] =
                            framebuffer.buffer[index_of(x, y)]
                     /\ framebuffer'.zbuffer[index_of(x, y)] =
                            framebuffer.zbuffer[index_of(x, y)]
             /\ \A i \in Pixels \ {index_of(x, y)} :
                    /\ framebuffer'.buffer[i] = framebuffer.buffer[i]
                    /\ framebuffer'.zbuffer[i] = framebuffer.zbuffer[i]]_vars

\* C2 witness: the last point call tied with the stored depth under another
\* draw color, and the pixel still holds the color of the earlier write.
C2_Witness ==
    /\ lastOp.op = "point"
    /\ LET i == index_of(lastOp.args[1], lastOp.args[2])
           earlier == [x |-> lastOp.args[1], y |-> lastOp.args[2],
                       depth |-> lastOp.args[3],
                       color |-> framebuffer.buffer[i]]
       IN  /\ lastOp.args[3] \in 1..MaxDepth
           /\ framebuffer.zbuffer[i] = lastOp.args[3]
           /\ framebuffer.buffer[i] # framebuffer.current_color
           /\ earlier \in writes
           /\ [earlier EXCEPT !.color = framebuffer.current_color] \in writes

\* C3: right after clear(), whatever came before, every color entry is the
\* color the latest set_background_color asked for (0x000000 when there was
\* none) and every depth entry is +infinity.
C3_ClearResets ==
    lastOp.op = "clear" =>
        /\ DOMAIN framebuffer.buffer = Pixels
        /\ DOMAIN framebuffer.zbuffer = Pixels
        /\ \A i \in Pixels :
              /\ framebuffer.buffer[i] = requestedBackground
              /\ framebuffer.zbuffer[i] = INFINITY

\* C3 witness: clear() ran as the third operation, after a
\* set_background_color with a color other than the initial one.
C3_Witness ==
    /\ lastOp.op = "clear"
    /\ nops = 3
    /\ requestedBackground = GRAY
    /\ framebuffer.buffer[0] = GRAY

\* C4: point(x, y, depth) with x >= width or y >= height changes nothing of
\* the framebuffer, for every depth: neither buffer, neither color of the
\* draw state, and no pixel reached through y * width + x
C4_OutOfBoundsPointIsNoOp ==
    [][(/\ lastOp'.op = "point"
        /\ nops' = nops + 1
        /\ (lastOp'.args[1] >= Width \/ lastOp'.args[2] >= Height))
       => framebuffer' = framebuffer]_vars

\* C4 witness: point(width, 0, 1) was called while pixel (0, 1), the one at
\* index 0 * width + width, was still at depth +infinity and of another
\* color than the draw color.
C4_Witness ==
    /\ lastOp = [op |-> "point", args |-> <<Width, 0, 1>>]
    /\ framebuffer.zbuffer[Width] = INFINITY
    /\ framebuffer.buffer[Width] # framebuffer.current_color
    /\ \E i \in Pixels : framebuffer.zbuffer[i] # INFINITY

\* C5: inside a frame no step raises a stored depth: every step of the
\* frame loop other than clear() leaves each depth entry equal or smaller
\* (and never NaN), so an entry goes back to +infinity through clear() alone.
C5_DepthNeverIncreasesInFrame ==
    [][lastOp'.op # "clear" =>
         \A i \in Pixels :
            /\ framebuffer'.zbuffer[i] # NaN
            /\ framebuffer'.zbuffer[i] <= framebuffer.zbuffer[i]]_vars

\* C5 witness: in the scene of a frame drawn over the star texture, the
\* last fragment was farther than the depth its pixel already held.
C5_Witness ==
    /\ pc = "scene"
    /\ skybox_texture = tex_stars
    /\ lastOp.op = "point"
    /\ f32_lt(framebuffer.zbuffer[index_of(lastOp.args[1], lastOp.args[2])],
              lastOp.args[3])
    /\ lastOp.args[3] # INFINITY

\* C6 as claimed: both buffers have length width * height, and an operation
\* that changes the color at an index also sets the depth at that index
\* (clear and render_skybox store +infinity there, point the new depth).
C6_EveryColorWriteSetsDepth ==
    [][/\ DOMAIN framebuffer'.buffer = Pixels
       /\ DOMAIN framebuffer'.zbuffer = Pixels
       /\ \A i \in Pixels :
            framebuffer'.buffer[i] # framebuffer.buffer[i] =>
                \/ framebuffer'.zbuffer[i] # framebuffer.zbuffer[i]
                \/ lastOp'.op \in {"clear", "render_skybox"}]_vars

DepthWriting == {"point", "clear", "render_skybox"}
ColorOnly == {"draw_char", "draw_text", "draw_circle", "draw_triangle",
              "draw_line"}

\* C6 amended: both buffers always have length width * height; point, clear
\* and render_skybox never change a pixel's color without setting that
\* pixel's depth in the same call; draw_char, draw_text, draw_circle,
\* draw_triangle and draw_line write colors only and leave every depth.
C6_DepthWritersInLockstep ==
    [][/\ DOMAIN framebuffer'.buffer = Pixels
       /\ DOMAIN framebuffer'.zbuffer = Pixels
       /\ lastOp'.op = "point" =>
            \A i \in Pixels :
                framebuffer'.buffer[i] # framebuffer.buffer[i] =>
                    /\ framebuffer'.zbuffer[i] = lastOp'.args[3]
                    /\ framebuffer'.zbuffer[i] # framebuffer.zbuffer[i]
       /\ lastOp'.op \in {"clear", "render_skybox"} =>
            \A i \in Pixels : framebuffer'.zbuffer[i] = INFINITY
       /\ lastOp'.op \notin DepthWriting =>
            framebuffer'.zbuffer = framebuffer.zbuffer]_vars

\* C6 witness: draw_line has recolored a pixel whose depth a point call had
\* set: the color is the line's, the depth still the point's.
C6_Witness ==
    /\ lastOp.op = "draw_line"
    /\ \E i \in Pixels :
          /\ framebuffer.zbuffer[i] = 1
          /\ framebuffer.buffer[i] = GRAY
          /\ framebuffer.current_color = WHITE

\* ========================================= claims on select_shader/render
\* the colors of the nine materials that have an arm of their own, for
\* every fragment and uniforms of the input sets
ShaderTable ==
    [i \in 0..8 |-> [f \in Fragments |-> [u \in UniformsSet |->
        select_shader(i, f, u)]]]

IsColor(c) ==
    /\ DOMAIN c = {"r", "g", "b"}
    /\ c.r \in Int /\ c.g \in Int /\ c.b \in Int

\* C7: select_shader returns a color for every index; each of the indices
\* 0..8 has a material of its own (any two of them give different colors on
\* some fragment and uniforms); every index above 8 returns exactly what
\* index 0 returns for the same fragment and uniforms.
C7_SelectShaderTotal ==
    lastOp.op = "select_shader" =>
        LET index == lastOp.args[1]
            fragment == lastOp.args[2]
            uniforms == lastOp.args[3]
        IN  /\ IsColor(shaded)
            /\ index > 8 => shaded = ShaderTable[0][fragment][uniforms]
            /\ index <= 8 =>
                  \A other \in (0..8) \ {index} :
                     \E f \in Fragments, u \in UniformsSet :
                        ShaderTable[index][f][u] # ShaderTable[other][f][u]

\* C7 witness: select_shader was called with the largest usize as index on
\* a fragment that the lit materials do not leave black.
C7_Witness ==
    /\ lastOp.op = "select_shader"
    /\ lastOp.args[1] = UsizeModulus - 1
    /\ lastOp.args[2].normal = <<- dec(1, 0), 0, 0>>
    /\ shaded = sun_shader[1]

\* C8: with index 0 select_shader returns one constant color, the sun's
\* base color with no lighting applied, whatever the fragment's normal,
\* position, depth and color and whatever the uniforms' time and matrices.
C8_SunIgnoresInputs ==
    (lastOp.op = "select_shader" /\ lastOp.args[1] = 0) =>
        /\ shaded = from_float(dec(1, 0), dec(0, 90), dec(0, 50))
        /\ \A f \in Fragments, u \in UniformsSet :
              select_shader(0, f, u) = shaded

\* C8 witness: index 0 was shaded on a fragment and uniforms (time 5, a
\* translated model matrix) for which the lighting helper would have
\* changed the sun's color.
C8_Witness ==
    /\ lastOp.op = "select_shader"
    /\ lastOp.args[1] = 0
    /\ lastOp.args[3].time = 5
    /\ lastOp.args[3].model_matrix # identity4
    /\ apply_lighting(sun_shader[1], lastOp.args[2], sun_light) # shaded

\* C9: a render call on n vertices forms floor(n / 3) triangles, triangle k
\* from the vertices 3k, 3k+1, 3k+2; it reads no vertex past the end, the
\* n mod 3 trailing vertices are read for no triangle, and it does not
\* panic.
C9_TrianglesInThrees ==
    lastOp.op = "render" =>
        LET n == renderTrace.len
        IN  /\ ~ panicked
            /\ Len(renderTrace.triangles) = n \div 3
            /\ \A k \in 1..Len(renderTrace.triangles) :
                  renderTrace.triangles[k] =
                      <<3 * (k - 1), 3 * (k - 1) + 1, 3 * (k - 1) + 2>>
            /\ renderTrace.reads = 0..(3 * (n \div 3) - 1)
            /\ renderTrace.reads \subseteq 0..(n - 1)

\* C9 witness: render ran on seven vertices, two triangles and one vertex
\* left over, and drew fragments.
C9_Witness ==
    /\ lastOp.op = "render"
    /\ renderTrace.len = 7
    /\ Len(renderTrace.triangles) = 2
    /\ renderTrace.fragments > 0

\* twice the signed area of triangle t of the last render call, in screen
\* space
screen_area(t) ==
    edge(renderTrace.screen[t[1] + 1], renderTrace.screen[t[2] + 1],
         renderTrace.screen[t[3] + 1])

\* C10: a render call all of whose triangles are collinear in screen space
\* (coincident points included) yields no fragment and leaves the color
\* buffer and the depth buffer as they were.
C10_CollinearYieldsNothing ==
    [][(/\ lastOp'.op = "render"
        /\ nops' = nops + 1
        /\ \A k \in 1..Len(renderTrace'.triangles) :
              LET t == renderTrace'.triangles[k]
              IN  edge(renderTrace'.screen[t[1] + 1],
                       renderTrace'.screen[t[2] + 1],
                       renderTrace'.screen[t[3] + 1]) = 0)
       => /\ renderTrace'.fragments = 0
          /\ framebuffer'.buffer = framebuffer.buffer
          /\ framebuffer'.zbuffer = framebuffer.zbuffer]_vars

\* C10 witness: after geometry was drawn, render ran on two collinear
\* triangles whose points lie on pixel centers of the framebuffer.
C10_Witness ==
    /\ lastOp.op = "render"
    /\ nops = 2
    /\ Len(renderTrace.triangles) = 2
    /\ \A k \in 1..2 : screen_area(renderTrace.triangles[k]) = 0
    /\ renderTrace.screen[1] # renderTrace.screen[2]
    /\ renderTrace.screen[1] = <<0, 0, dec(1, 0)>>
    /\ framebuffer.zbuffer[0] # INFINITY

\* ================================================ claims on the rasterizer
\* the framebuffer is as clear() leaves it over background 0x000000
ClearedToBlack(fb) ==
    \A i \in DOMAIN fb.buffer :
        fb.buffer[i] = BLACK /\ fb.zbuffer[i] = INFINITY

\* C11: the triangle (0,0), (4,0), (0,4) at depth 1, drawn in 0xFFFFFF on a
\* framebuffer cleared to 0x000000, leaves exactly the pixels with
\* x + y <= 4 (corners and edges included) at 0xFFFFFF and depth 1 and every
\* other pixel at 0x000000 and +infinity, on a framebuffer of any size.
C11_ExampleTriangle ==
    [][(/\ lastOp'.op = "rasterize"
        /\ lastOp'.args = <<ExampleTriangle, dec(1, 0), WHITE>>
        /\ ClearedToBlack(framebuffer))
       => \A i \in DOMAIN framebuffer'.buffer :
             IF (i % framebuffer.width) + (i \div framebuffer.width) <= 4
             THEN /\ framebuffer'.buffer[i] = WHITE
                  /\ framebuffer'.zbuffer[i] = dec(1, 0)
             ELSE /\ framebuffer'.buffer[i] = BLACK
                  /\ framebuffer'.zbuffer[i] = INFINITY]_vars

\* C11 witness: the example was drawn first on a 6 x 6 framebuffer: the
\* corner (4,0) and the edge pixel (2,2) are white at depth 1, their
\* neighbours (5,0) and (3,2) are untouched.
C11_Witness ==
    /\ lastOp = [op |-> "rasterize",
                 args |-> <<ExampleTriangle, dec(1, 0), WHITE>>]
    /\ nops = 1
    /\ framebuffer.width = 6 /\ framebuffer.height = 6
    /\ framebuffer.buffer[4] = WHITE /\ framebuffer.zbuffer[4] = dec(1, 0)
    /\ framebuffer.buffer[14] = WHITE /\ framebuffer.zbuffer[14] = dec(1, 0)
    /\ framebuffer.buffer[5] = BLACK /\ framebuffer.zbuffer[5] = INFINITY
    /\ framebuffer.buffer[15] = BLACK
    /\ Cardinality(rasterTrace[1]) = 15

\* the pixel centers of the framebuffer on the segment from a to b
on_edge(a, b, width, height) ==
    {p \in (0..(width - 1)) \X (0..(height - 1)) :
        /\ (p[1] - a[1]) * (b[2] - a[2]) = (p[2] - a[2]) * (b[1] - a[1])
        /\ min3(a[1], a[1], b[1]) <= p[1] /\ p[1] <= max3(a[1], a[1], b[1])
        /\ min3(a[2], a[2], b[2]) <= p[2] /\ p[2] <= max3(a[2], a[2], b[2])}

\* C12 as claimed: of two triangles that share an edge, every pixel center
\* on the shared edge gets a fragment from exactly one of the two.
C12_SharedEdgeOwnedOnce ==
    lastOp.op = "rasterize_pair" =>
        \A p \in on_edge(lastOp.args[1][3][1], lastOp.args[1][3][2],
                         framebuffer.width, framebuffer.height) :
            (p \in rasterTrace[1]) # (p \in rasterTrace[2])

\* =========================================== claims on the primitives
\* the drawing primitives of the claim
DrawingPrimitives == {"draw_line", "draw_circle", "draw_char", "draw_text"}

\* C13: every drawing primitive (draw_line, draw_circle, draw_char,
\* draw_text) completes without a failure for all argument values: no call
\* of one of them ends in a panic (an unsigned subtraction below zero, an
\* index out of range).
C13_PrimitivesNeverFail ==
    lastOp.op \in DrawingPrimitives => ~ panicked

\* ============================================ claims on the frame loop
\* the framebuffer operations of a frame that store colors or depths
FrameWrites == {"render_skybox", "draw_line", "point", "draw_text"}

\* C14: in every iteration of the render loop the framebuffer is cleared
\* exactly once and before any write (the clear is the first operation of
\* the iteration and the only clear), every write of the frame comes after
\* the clear and before the hand-off, the buffer is handed to the window
\* exactly once, as the last operation of the iteration, and the
\* framebuffer changes in no step other than the clear and the writes
\* between the clear and the hand-off.
C14_ClearWritesHandOff ==
    [][/\ \A i \in 1..Len(frameLog') :
              /\ frameLog'[i] = "clear" <=> i = 1
              /\ frameLog'[i] = "update_with_buffer" =>
                     i = Len(frameLog') /\ pc' \in {"loop", "done"}
              /\ frameLog'[i] \in FrameWrites =>
                     /\ 1 < i
                     /\ \A j \in 1..i : frameLog'[j] # "update_with_buffer"
       /\ pc' = "loop" /\ frameLog' # <<>> =>
              frameLog'[Len(frameLog')] = "update_with_buffer"
       /\ framebuffer' # framebuffer =>
              /\ lastOp'.op \in FrameWrites \cup {"clear"}
              /\ frameLog' = Append(frameLog, lastOp'.op)]_vars

\* C14 witness: an iteration is complete (the loop head is reached again
\* after the hand-off) in which the scene drew an orbit line and a
\* fragment, and the buffer handed over holds a drawn pixel.
C14_Witness ==
    /\ pc = "loop"
    /\ Len(frameLog) = 7
    /\ frameLog[1] = "clear"
    /\ frameLog[3] = "draw_line"
    /\ frameLog[4] = "point"
    /\ frameLog[7] = "update_with_buffer"
    /\ lastOp.op = "update_with_buffer"
    /\ \E i \in Pixels : framebuffer.buffer[i] = GRAY

\* C20: the time counter of the shared parameters advances with the
\* frames: every value of uniforms.time that render received in frame
\* k + 1 is greater than every value it received in frame k.
C20_UniformsTimeAdvances ==
    \A k \in 1..(Len(timesPassed) - 1) :
        \A a \in timesPassed[k], b \in timesPassed[k + 1] : b > a

\* ================================================== claims on the loops
LoopKinds == {"draw_line", "draw_circle", "vertices", "triangles",
              "rasterize", "fragments"}

\* C15: a frame always finishes: each loop that runs during a frame (the
\* Bresenham loop, the midpoint circle loop, the vertex, triangle,
\* rasterization and fragment loops of render) is left again, every call
\* that loops returns (the 50 ring draws included), and a frame that has
\* started reaches the hand-off to the window.
C15_FrameAlwaysFinishes ==
    /\ \A kind \in LoopKinds : (loop.kind = kind) ~> (loop.kind # kind)
    /\ (loop # NoLoop) ~> (loop = NoLoop)
    /\ (pc \in {"scene", "present"}) ~> (lastOp.op = "update_with_buffer")

\* C15 witness: a frame was handed to the window after its scene drew all
\* the rings.
C15_Witness ==
    /\ lastOp.op = "update_with_buffer"
    /\ pc = "loop"
    /\ loop = NoLoop
    /\ frameLog = <<"clear", "render_skybox", "render_saturn_rings",
                    "draw_text", "update_with_buffer">>

\* ================================================ claims on the materials
\* C16: for every orbiting-body material (index 1 to 7) and every noise
\* sample in [-1, 1], every blend factor the material passes to a color
\* interpolation lies in [0, 1].
C16_BlendFactorsInUnitRange ==
    (lastOp.op = "select_shader" /\ lastOp.args[1] \in 1..7) =>
        \A t \in blend_factors(lastOp.args[1], lastOp.args[2],
                               lastOp.args[3]) :
            0 <= t /\ t <= dec(1, 0)

\* the materials whose color select_shader passes through the generic
\* point-light helper: the indices for which select_shader returns
\* apply_lighting of the material's color, and not the material's color
\* itself, on the fragments and uniforms of the model
LitByHelper ==
    {i \in 1..7 :
        /\ \A f \in Fragments, u \in UniformsSet :
              select_shader(i, f, u)
                  = apply_lighting(material_color(i, f, u), f, sun_light)
        /\ \E f \in Fragments, u \in UniformsSet :
              select_shader(i, f, u) # material_color(i, f, u)}

\* C17: among the material indices 1 to 7 exactly one body has the generic
\* point-light helper (apply_lighting) applied to its color; every other
\* body's color does not pass through the helper.
C17_OneBodyUsesHelper ==
    lastOp.op = "select_shader" => Cardinality(LitByHelper) = 1

\* the palette of the ring material
RingPalette == <<from_hex(11584734), from_hex(7372944),
                 from_hex(11119017), from_hex(16119260)>>

\* C18: for the ring material (index 8), with r the distance of the
\* fragment's reference position from the origin in the x-z plane, band
\* width w = 1/4 and n = 4 bands, the color returned is palette entry
\* floor(r / w) mod n multiplied by 1 - frac(r / w), and it is the same for
\* every normal, every uniforms (time counter, matrices, noise) and every
\* height y of a fragment at the same x and z.
C18_RingBands ==
    (lastOp.op = "select_shader" /\ lastOp.args[1] = 8) =>
        LET p == lastOp.args[2].vertex_position
            r == magnitude2(<<p[1], p[3]>>)
            w == dec(0, 25)
            entry == (r \div w) % 4
            frac == fdiv(r - (r \div w) * w, w)
        IN  /\ r >= 0
            /\ shaded = color_mul(RingPalette[entry + 1], dec(1, 0) - frac)
            /\ \A f \in RingFragments, u \in UniformsSet :
                  (f.vertex_position[1] = p[1] /\ f.vertex_position[3] = p[3])
                      => select_shader(8, f, u) = shaded

\* C18 witness: a fragment in the sixth band (r = 1.30, which wraps to
\* palette entry 1) four fifths of the way to the band's inner edge, shaded
\* at time 5 to a color the lighting helper would have changed.
C18_Witness ==
    /\ lastOp.op = "select_shader"
    /\ lastOp.args[1] = 8
    /\ lastOp.args[2].vertex_position = <<dec(1, 30), 0, 0>>
    /\ lastOp.args[2].normal = <<- dec(1, 0), 0, 0>>
    /\ lastOp.args[3].time = 5
    /\ shaded = color_mul(from_hex(7372944), dec(0, 80))
    /\ apply_lighting(shaded, lastOp.args[2], sun_light) # shaded

\* the framebuffer pixel a fragment is written to: position as usize
fragment_xy(fragment) ==
    <<f32_as_usize(fragment.position[1]), f32_as_usize(fragment.position[2])>>

\* fragment k of `drawn` is the first one at pixel (x, y) with this depth
FirstAtDepth(drawn, k, x, y, depth) ==
    /\ fragment_xy(drawn[k]) = <<x, y>>
    /\ drawn[k].depth = depth
    /\ \A j \in 1..(k - 1) :
          ~ (fragment_xy(drawn[j]) = <<x, y>> /\ drawn[j].depth = depth)

C21_SkyboxNeverOccludes ==
    [][/\ lastOp'.op = "render_skybox" /\ pc = "skybox"
          => \A i \in Pixels :
                /\ framebuffer'.zbuffer[i] = INFINITY
                /\ framebuffer'.buffer[i]
                   = skybox_color(framebuffer, skybox_texture, i)
       /\ (/\ lastOp'.op = "point"
           /\ sceneOps' = sceneOps + 1
           /\ framebuffer.zbuffer[index_of(lastOp'.args[1],
                                           lastOp'.args[2])] = INFINITY)
          => /\ lastOp'.args[3] \notin {INFINITY, NaN}
                => /\ framebuffer'.buffer[index_of(lastOp'.args[1],
                                                   lastOp'.args[2])]
                      = framebuffer'.current_color
                   /\ framebuffer'.zbuffer[index_of(lastOp'.args[1],
                                                    lastOp'.args[2])]
                      = lastOp'.args[3]
             /\ lastOp'.args[3] = INFINITY
                => /\ framebuffer'.buffer = framebuffer.buffer
                   /\ framebuffer'.zbuffer = framebuffer.zbuffer]_vars

\* C21 witness: over the star texture, whose pixel (0, 0) is white, a
\* fragment of finite depth has put gray on pixel (0, 0), and the last
\* fragment, of depth +infinity, left the far corner with the skybox's
\* color and depth.
C21_Witness ==
    /\ pc = "scene"
    /\ skybox_texture = tex_stars
    /\ sceneOps = 2
    /\ frameLog = <<"clear", "render_skybox", "point", "point">>
    /\ framebuffer.buffer[0] = GRAY
    /\ framebuffer.zbuffer[0] \in 1..MaxDepth
    /\ lastOp.op = "point"
    /\ lastOp.args = <<Width - 1, Height - 1, INFINITY>>
    /\ framebuffer.current_color = GRAY
    /\ framebuffer.buffer[index_of(Width - 1, Height - 1)] = WHITE
    /\ framebuffer.zbuffer[index_of(Width - 1, Height - 1)] = INFINITY

\* ====================================================== claims on the view
\* C22: whenever the label of the frame is "BIRD EYE" the transition's
\* target eye is the bird's-eye position (0, 500, 200), and whenever it is
\* "NAVE" the target eye is the default position (50, 100, 250).
C22_LabelMatchesTarget ==
    /\ current_view = "BIRD EYE"
       => transition_target_eye = <<0, dec(500, 0), dec(200, 0)>>
    /\ current_view = "NAVE"
       => transition_target_eye = <<dec(50, 0), dec(100, 0), dec(250, 0)>>
====
